---- MODULE Spec2Model ----
(***************************************************************************)
(* A state-machine model of the grraffia workspace tool.                   *)
(*                                                                         *)
(* Board Editor Page (src/src/app/board/[...path]/page.tsx): the board     *)
(* document, its load/normalisation, the slide and item handlers, the      *)
(* explicit save with its Save Failed dialog, and the image-insert         *)
(* pipeline.                                                               *)
(*                                                                         *)
(* Workspace State Manager and File Browser                                *)
(* (src/src/ai/flows/process-image-flow.ts, src/unnamed/part_007): mount,  *)
(* directory listings and their completions, navigation, opening and       *)
(* deleting an entry, reading and deleting files by path.                  *)
(*                                                                         *)
(* Graphing Overlay (src/unnamed/part_000): the formula list, the keypad   *)
(* and the redraw; the capture of the layout whose formula panel overlaps  *)
(* the plot (src/unnamed/part_001, lines 200 and after).                   *)
(*                                                                         *)
(* Editable Text Widget (src/unnamed/part_002): selection, editing, drag   *)
(* and resize gestures and the calls made to the owner.                    *)
(*                                                                         *)
(* Representation.                                                         *)
(*  - A JavaScript object is a TLA+ record; a property that is absent is   *)
(*    a key outside DOMAIN.  A string-valued property that is present but  *)
(*    holds the JavaScript value undefined holds the marker `undefined`.   *)
(*  - A JSON text is modelled by the structured value it denotes:          *)
(*    JSONstringify drops the properties JSON.stringify drops, and         *)
(*    JSONparse reads the text back.                                       *)
(*  - null for a string-valued React state (selectedItemId, error, ...) is *)
(*    `null`; a null boardData is NullBoard.                               *)
(*  - Image scale is counted in hundredths (scale 1 is 100, 0.1 is 10).    *)
(*  - Date.now() and Math.random() are drawn from `clock`, a source of     *)
(*    values that never repeats.                                           *)
(*  - An async handler is split at its awaits; what it captured in its     *)
(*    closure (boardData, currentSlideIndex) travels in the record of the  *)
(*    operation in flight.                                                 *)
(*  - The Textarea of the text being edited on the page has the focus      *)
(*    from its mounting; a press anywhere else takes it, so handleTextBlur *)
(*    runs before the handler of a click outside the Textarea.             *)
(***************************************************************************)
EXTENDS Integers, Sequences, FiniteSets, TLC

VARIABLES
    \* ---- storage reached through the Workspace State Manager
    rootDirectoryHandle,  \* TRUE when a root folder is mounted
    boardFile,            \* the .board file of the route: [kind, doc]
    siblings,             \* names of the readable files beside the board file
    \* ---- Board Editor Page state (page.tsx 75-89)
    boardData,
    currentSlideIndex,
    selectedItemId,
    editingTextId,
    error,
    showSaveErrorAlert,
    isCropping,
    isInserting,
    sourceImage,
    completedCrop,
    readerPending,        \* a FileReader of onSelectFile has not yet loaded
    \* ---- effects and operations in flight
    loadPc,               \* position of the loadBoard effect
    saveWrites,           \* writeFile calls dispatched by saveBoard, not yet settled
    failedSave,           \* the saveBoard write that was rejected last, or NoSave
    insertOp,             \* the handleInsertImage call in flight, or NoInsert
    toasts,               \* titles handed to toast(), oldest first
    \* ---- bookkeeping
    clock,                \* next value of Date.now()/Math.random()
    nOps,                 \* user gestures made so far
    lastOp                \* name of the handler that ran last

VARIABLES
    \* ---- Workspace State Manager (process-image-flow.ts 122-126) and what it reaches
    disk,                     \* the entries in storage: [dir, name, kind]
    pickerSupported,          \* 'showDirectoryPicker' in window
    wsRootDirectoryHandle,    \* the provider's rootDirectoryHandle, NoHandle for null
    currentDirectoryHandle,
    directoryContents,
    path,
    wsError,                  \* the provider's error
    mountPc,                  \* "idle", or "picking" while showDirectoryPicker is open
    mountBefore,              \* the provider's state when mount() was last called
    wsOps,                    \* removeEntry / directory enumerations not yet settled
    thrown,                   \* what the last readFile / deleteItemByPath rejected with
    \* ---- File Browser Page (part_007)
    route,                    \* the location router.push left
    itemClickResult,          \* what the context's handleItemClick returned last
    \* ---- Graphing overlay (part_000 27-32) and the DOM it drives
    formulas,                 \* [id, value, color], value as its characters
    nextId,
    activeInputIndex,
    selection,                \* per formula input: [start, end] of the DOM selection
    cursorTimers,             \* setTimeout(..., 0) callbacks not yet run, oldest first
    plotted,                  \* the curves the last redraw left in the plot
    \* ---- Graphing overlay whose panel overlaps the plot (part_001 223, 316-332)
    isFormulaSheetOpen,
    captureOps,               \* handleCapture calls in flight, oldest first
    captureLog,               \* the images handed to onCapture, oldest first
    \* ---- Editable Text Widgets (part_002 29-45) on one canvas, and their owner
    widgets,                  \* per widget id: its React state and long-press timer
    props,                    \* per widget id: what the owner passes down
    ownerLog,                 \* the owner callbacks called so far, oldest first
    pointer,                  \* its phase (up, down, click) and what it went down on
    mousePending              \* the mousedown a pointerdown is followed by, if not yet sent

\* the Board Editor Page and the storage it reads
editorVars == << rootDirectoryHandle, boardFile, siblings, boardData, currentSlideIndex,
                 selectedItemId, editingTextId, error, showSaveErrorAlert, isCropping,
                 isInserting, sourceImage, completedCrop, readerPending, loadPc,
                 saveWrites, failedSave, insertOp, clock >>

\* the Workspace State Manager, its storage and the File Browser Page
workspaceVars == << disk, pickerSupported, wsRootDirectoryHandle, currentDirectoryHandle,
                    directoryContents, path, wsError, mountPc, mountBefore, wsOps, thrown,
                    route, itemClickResult >>

\* the graphing overlay
captureVars == << isFormulaSheetOpen, captureOps, captureLog >>

graphVars == << formulas, nextId, activeInputIndex, selection, cursorTimers, plotted,
                captureVars >>

\* the editable text widgets and their owner
widgetVars == << widgets, props, ownerLog, pointer, mousePending >>

vars == << editorVars, workspaceVars, graphVars, widgetVars, toasts, nOps, lastOp >>

storageVars == << rootDirectoryHandle, boardFile, siblings >>
cropVars == << isCropping, isInserting, sourceImage, completedCrop, readerPending,
              insertOp >>
saveVars == << showSaveErrorAlert, saveWrites, failedSave >>

-----------------------------------------------------------------------------
(* Bounds of the model                                                     *)

\* user gestures explored per run
MaxOps == 4
\* longest items / texts / images array of a generated board file
MaxRawItems == 2
\* saveBoard writes that may be outstanding together
MaxSaves == 2

-----------------------------------------------------------------------------
(* JavaScript values                                                       *)

null == ""
undefined == "<undefined>"
NullBoard == [isNull |-> TRUE]

Max(a, b) == IF a >= b THEN a ELSE b

\* o.k || d for a number: undefined and 0 are falsy
NumOr(o, k, d) == IF k \in DOMAIN o /\ o[k] # 0 THEN o[k] ELSE d
\* o.k || d for a string: undefined and "" are falsy
StrOr(o, k, d) == IF k \in DOMAIN o /\ o[k] # "" THEN o[k] ELSE d
\* o.k || d for an array: only undefined is falsy
ArrOr(o, k, d) == IF k \in DOMAIN o THEN o[k] ELSE d
\* o.k for a string property
StrGet(o, k) == IF k \in DOMAIN o THEN o[k] ELSE undefined

\* the properties that may hold `undefined` in memory
StringKeys == {"content", "filename"}

\* JSON.stringify of one object: a property whose value is undefined is omitted
JSONstringifyObject(o) ==
    [k \in {j \in DOMAIN o : ~(j \in StringKeys /\ o[j] = undefined)} |-> o[k]]

-----------------------------------------------------------------------------
(* The route and the files it names                                        *)

\* getFilePath(): the decoded route path of the board file
FilePath == "decks/deck.board"
\* getFileDirectory(): the path without its last segment
FileDirectory == "decks"

NotFoundPlaceholder == "https://placehold.co/300x200/EEE/31343C?text=Not+Found"
LoadErrorMessage == "Failed to load board data."

\* all sequences over S of length at most n
SeqsUpTo(S, n) == UNION {[1..k -> S] : k \in 0..n}

\* items as they may stand in a board file (unified shape)
RawItems ==
    { [id |-> "t1", type |-> "text", content |-> "Hi", position |-> <<0, 0>>,
       rotation |-> 5, font_size |-> 9, width |-> 55],
      [content |-> "Old"],
      [id |-> "t2", type |-> "text", font_size |-> 0, position |-> <<100, 100>>],
      [id |-> "i1", type |-> "image", filename |-> "a.png", position |-> <<30, 40>>,
       rotation |-> 90, width |-> 300, height |-> 150, scale |-> 15],
      [type |-> "image", filename |-> "b.png"] }

\* entries of the legacy texts / images arrays: no id, no type
LegacyTexts ==
    { [content |-> "Old", position |-> <<10, 10>>, font_size |-> 18],
      [content |-> "Bare"] }
LegacyImages ==
    { [filename |-> "a.png", position |-> <<5, 5>>, scale |-> 200],
      [filename |-> "b.png"] }

UnifiedSlides ==
    { [slide_number |-> 1, items |-> its] : its \in SeqsUpTo(RawItems, MaxRawItems) }
LegacySlides ==
    { [slide_number |-> 1, texts |-> ts, images |-> is] :
        ts \in SeqsUpTo(LegacyTexts, MaxRawItems),
        is \in SeqsUpTo(LegacyImages, MaxRawItems) }

JsonFile(doc) == [kind |-> "json", doc |-> doc]
\* a file that is not JSON, and a path that names no file
GarbageFile == [kind |-> "garbage"]
MissingFile == [kind |-> "missing"]

\* the board files the load is checked on
LoadFiles ==
    { JsonFile([slides |-> <<s>>]) : s \in UnifiedSlides \cup LegacySlides }
    \cup { JsonFile([slides |-> << [slide_number |-> 1,
                                    texts |-> << [content |-> "Old"] >>,
                                    images |-> << [filename |-> "a.png"] >>],
                                   [slide_number |-> 2,
                                    items |-> << [content |-> "New"],
                                                 [type |-> "image", filename |-> "a.png"] >>] >>]),
           JsonFile([title |-> "no slides"]),
           JsonFile([slides |-> << [slide_number |-> 1,
                                    items |-> << [id |-> "t3", type |-> "text",
                                                  content |-> "Tiny", font_size |-> 5,
                                                  width |-> 20],
                                                 [id |-> "i3", type |-> "image",
                                                  filename |-> "a.png",
                                                  scale |-> 5] >>] >>]),
           GarbageFile, MissingFile }

SiblingSets == { {}, {"a.png"}, {"a.png", "b.png"} }

-----------------------------------------------------------------------------
(* loadBoard: normalisation of a parsed document                           *)

\* readFile(path) of a sibling image succeeds exactly for a readable file
CanRead(filename, files) == filename \in files

\* slide.items || slide.texts?.map(t => ({...t, type: 'text'})) || []
SlideRawItems(slide) ==
    IF "items" \in DOMAIN slide THEN slide.items
    ELSE IF "texts" \in DOMAIN slide
         THEN [i \in DOMAIN slide.texts |-> [type |-> "text"] @@ slide.texts[i]]
         ELSE << >>

\* `item-${Date.now()}-${Math.random()}` for the i-th item of the s-th slide
SynthId(now, s, i) ==
    "item-" \o ToString(now) \o "-" \o ToString(s) \o "." \o ToString(i)

\* the image branch with a catch that leaves imageSrc as it was initialised
NormalizeItem_emptySrc(item, now, s, i, files) ==
    LET baseItem == [id |-> StrOr(item, "id", SynthId(now, s, i)),
                     position |-> ArrOr(item, "position", <<50, 50>>),
                     rotation |-> NumOr(item, "rotation", 0)]
    IN  IF "type" \in DOMAIN item /\ item.type = "image"
        THEN baseItem @@
             [type |-> "image",
              filename |-> StrGet(item, "filename"),
              width |-> NumOr(item, "width", 200),
              height |-> NumOr(item, "height", 200),
              scale |-> NumOr(item, "scale", 100),
              src |-> IF CanRead(StrGet(item, "filename"), files)
                      THEN "blob:" \o item.filename
                      ELSE ""]
        ELSE baseItem @@
             [type |-> "text",
              content |-> StrGet(item, "content"),
              font_size |-> NumOr(item, "font_size", 24),
              width |-> NumOr(item, "width", 200)]

\* the callback of items.map in loadBoard
NormalizeItem(item, now, s, i, files) ==
    LET baseItem == [id |-> StrOr(item, "id", SynthId(now, s, i)),
                     position |-> ArrOr(item, "position", <<50, 50>>),
                     rotation |-> NumOr(item, "rotation", 0)]
    IN  IF "type" \in DOMAIN item /\ item.type = "image"
        THEN baseItem @@
             [type |-> "image",
              filename |-> StrGet(item, "filename"),
              width |-> NumOr(item, "width", 200),
              height |-> NumOr(item, "height", 200),
              scale |-> NumOr(item, "scale", 100),
              src |-> IF CanRead(StrGet(item, "filename"), files)
                      THEN "blob:" \o item.filename
                      ELSE NotFoundPlaceholder]
        ELSE baseItem @@
             [type |-> "text",
              content |-> StrGet(item, "content"),
              font_size |-> NumOr(item, "font_size", 24),
              width |-> NumOr(item, "width", 200)]

\* the callback of data.slides.map: {...slide, items: ...}
NormalizeSlide(slide, now, s, files) ==
    [items |-> [i \in DOMAIN SlideRawItems(slide) |->
                    NormalizeItem(SlideRawItems(slide)[i], now, s, i, files)]]
    @@ slide

\* dataWithDefaults
NormalizeBoard(data, now, files) ==
    [slides |-> [s \in DOMAIN data.slides |->
                    NormalizeSlide(data.slides[s], now, s, files)]]
    @@ data

-----------------------------------------------------------------------------
(* saveBoard: serialisation                                                *)

\* saveBoard as the older page wrote it: the items are written as they are
StripSrc_kept(item) == item

\* const { src, ...rest } = item; return rest
StripSrc(item) ==
    IF item.type = "image" THEN [k \in DOMAIN item \ {"src"} |-> item[k]] ELSE item

\* dataToSave of saveBoard
DataToSave(data) ==
    [slides |-> [s \in DOMAIN data.slides |->
                    [items |-> [i \in DOMAIN data.slides[s].items |->
                                    StripSrc(data.slides[s].items[i])]]
                    @@ data.slides[s]]]
    @@ data

\* JSON.stringify(dataToSave, null, 2)
JSONstringify(data) ==
    [slides |-> [s \in DOMAIN data.slides |->
                    [items |-> [i \in DOMAIN data.slides[s].items |->
                                    JSONstringifyObject(data.slides[s].items[i])]]
                    @@ data.slides[s]]]
    @@ data

\* JSON.parse of a text JSON.stringify wrote
JSONparse(text) == text

\* the content saveBoard hands to writeFile
SaveContent(data) == JSONstringify(DataToSave(data))

-----------------------------------------------------------------------------
(* Construction and the loadBoard effect                                   *)

NoInsert == [stage |-> "none"]
NoSave == [path |-> null, content |-> NullBoard, data |-> NullBoard]

\* the palette of the graphing overlay
colors == << "#3366cc", "#dc3912", "#ff9900", "#109618", "#990099", "#0099c6" >>

\* the GraphingCanvas as useState constructs it and its first effect draws it
GraphConstructed ==
    /\ formulas = << [id |-> 1, value |-> << "x", "^", "2" >>, color |-> "#3366cc"] >>
    /\ nextId = 2
    /\ activeInputIndex = 0
    /\ selection = << [start |-> 3, end |-> 3] >>
    /\ cursorTimers = << >>
    /\ plotted = << [fn |-> << "x", "^", "2" >>, color |-> "#3366cc"] >>
    /\ isFormulaSheetOpen = TRUE
    /\ captureOps = << >>
    /\ captureLog = << >>

\* the text items the owner renders as widgets
WidgetIds == { "t1", "t2" }

\* a width prop that is not given: falsy in width || 200, as 0 is
NoWidth == 0

\* what the owner passes to each widget at first; a content is the sequence of
\* its characters, and the second one ends with a space
InitialProps ==
    [id \in WidgetIds |->
        [content |-> IF id = "t1" THEN << "h", "i" >> ELSE << "o", "k", " " >>,
         position |-> << 50, 50 >>, fontSize |-> 16, width |-> NoWidth]]

\* an EditableText as useState constructs it from its props
WidgetConstructed(p) ==
    [isEditing |-> FALSE, text |-> p.content, pos |-> p.position, fs |-> p.fontSize,
     w |-> IF p.width = NoWidth THEN 200 ELSE p.width,
     isDragging |-> FALSE, isResizing |-> null, isActive |-> FALSE,
     longPressTimer |-> FALSE]

WidgetsConstructed ==
    /\ props = InitialProps
    /\ widgets = [id \in WidgetIds |-> WidgetConstructed(InitialProps[id])]
    /\ ownerLog = << >>
    /\ pointer = [phase |-> "up", target |-> [on |-> "none"]]
    /\ mousePending = [on |-> "none"]

\* null for a directory handle
NoHandle == << >>
\* no mount() call has been made
NoMount == [called |-> FALSE]

\* the WorkspaceProvider and the File Browser Page as useState constructs them
ProviderConstructed ==
    /\ wsRootDirectoryHandle = NoHandle
    /\ currentDirectoryHandle = NoHandle
    /\ directoryContents = << >>
    /\ path = << >>
    /\ wsError = null
    /\ mountPc = "idle"
    /\ mountBefore = NoMount
    /\ wsOps = << >>
    /\ thrown = null
    /\ route = "/"
    /\ itemClickResult = [type |-> "undefined"]

\* the page as useState constructs it, over a given storage
PageConstructed ==
    /\ boardData = NullBoard
    /\ currentSlideIndex = 0
    /\ selectedItemId = null
    /\ editingTextId = null
    /\ error = null
    /\ showSaveErrorAlert = FALSE
    /\ isCropping = FALSE
    /\ isInserting = FALSE
    /\ sourceImage = null
    /\ completedCrop = FALSE
    /\ readerPending = FALSE
    /\ loadPc = "pending"
    /\ saveWrites = << >>
    /\ failedSave = NoSave
    /\ insertOp = NoInsert
    /\ toasts = << >>
    /\ clock = 1
    /\ nOps = 0
    /\ lastOp = "construct"

\* a step of an operation in flight: no gesture is counted
Step(name) ==
    nOps' = nOps /\ lastOp' = name
    /\ UNCHANGED << workspaceVars, graphVars, widgetVars >>
\* a user gesture, counted against MaxOps
Gesture(name) ==
    nOps < MaxOps /\ nOps' = nOps + 1 /\ lastOp' = name
    /\ UNCHANGED << workspaceVars, graphVars, widgetVars >>

\* the page body reacts to the pointer only while no modal dialog is open
Interactive == ~isCropping /\ ~showSaveErrorAlert

\* boardData.slides.length, 0 for a null boardData
SlideCount == IF boardData = NullBoard THEN 0 ELSE Len(boardData.slides)

\* currentSlide = boardData?.slides[currentSlideIndex]
HasCurrentSlide == boardData # NullBoard /\ currentSlideIndex + 1 \in DOMAIN boardData.slides
CurrentItems == IF HasCurrentSlide THEN boardData.slides[currentSlideIndex + 1].items ELSE << >>

\* the Textarea of item i is rendered
TextareaShown(i) ==
    /\ i \in DOMAIN CurrentItems
    /\ CurrentItems[i].type = "text"
    /\ editingTextId = CurrentItems[i].id

\* clicks reaching their handlers while the Textarea keeps the focus
OutsideTextarea_focusKept == Interactive

\* a press outside the Textarea, which is focused from its mounting (autoFocus,
\* line 667), takes the focus from it and handleTextBlur runs before the click:
\* a click elsewhere reaches its handler only when no Textarea is shown
OutsideTextarea == Interactive /\ ~(\E i \in DOMAIN CurrentItems : TextareaShown(i))

\* a click on item i of the current slide, the Textarea inside it included
OnItem(i) ==
    /\ Interactive
    /\ \A j \in DOMAIN CurrentItems : TextareaShown(j) => j = i

\* loadBoard up to its first await: returns at once without a mounted root
loadBoardStart ==
    /\ loadPc = "pending"
    /\ loadPc' = IF rootDirectoryHandle THEN "reading" ELSE "done"
    /\ Step("loadBoardStart")
    /\ UNCHANGED << storageVars, boardData, currentSlideIndex, selectedItemId,
                    editingTextId, error, cropVars, saveVars, toasts, clock >>

\* readFile or JSON.parse throws, or data.slides is not an array
LoadThrows == boardFile.kind # "json" \/ "slides" \notin DOMAIN boardFile.doc

\* what loadBoard hands to setBoardData
LoadedBoard == NormalizeBoard(JSONparse(boardFile.doc), clock, siblings)

\* a loadBoard whose catch only logs
loadBoardFinish_swallowed ==
    /\ loadPc = "reading"
    /\ loadPc' = "done"
    /\ IF LoadThrows
       THEN UNCHANGED << boardData, error >>
       ELSE boardData' = LoadedBoard /\ UNCHANGED error
    /\ clock' = clock + 1
    /\ Step("loadBoardFinish")
    /\ UNCHANGED << storageVars, currentSlideIndex, selectedItemId, editingTextId,
                    cropVars, saveVars, toasts >>

\* loadBoard after its awaits: setBoardData(dataWithDefaults) or the catch
loadBoardFinish ==
    /\ loadPc = "reading"
    /\ loadPc' = "done"
    /\ IF LoadThrows
       THEN error' = LoadErrorMessage /\ UNCHANGED boardData
       ELSE boardData' = LoadedBoard /\ UNCHANGED error
    /\ clock' = clock + 1
    /\ Step("loadBoardFinish")
    /\ UNCHANGED << storageVars, currentSlideIndex, selectedItemId, editingTextId,
                    cropVars, saveVars, toasts >>

-----------------------------------------------------------------------------
(* Explicit save                                                           *)

\* saveBoard(boardData) from the Save button, up to await writeFile
saveBoardCall(name) ==
    /\ IF boardData = NullBoard
       THEN UNCHANGED saveWrites
       ELSE /\ Len(saveWrites) < MaxSaves
            /\ saveWrites' = Append(saveWrites,
                                    [path |-> FilePath, content |-> SaveContent(boardData),
                                     data |-> boardData])
    /\ Gesture(name)
    /\ UNCHANGED << storageVars, boardData, currentSlideIndex, selectedItemId,
                    editingTextId, error, cropVars, failedSave, toasts, clock, loadPc >>

\* the Save button of the header
saveBoardClick ==
    /\ OutsideTextarea
    /\ UNCHANGED showSaveErrorAlert
    /\ saveBoardCall("saveBoard")

\* Retry of the Save Failed dialog: the dialog closes and saveBoard runs again
saveRetryClick ==
    /\ showSaveErrorAlert
    /\ showSaveErrorAlert' = FALSE
    /\ saveBoardCall("saveRetry")

\* Cancel of the Save Failed dialog
saveCancelClick ==
    /\ showSaveErrorAlert
    /\ showSaveErrorAlert' = FALSE
    /\ Gesture("saveCancel")
    /\ UNCHANGED << storageVars, boardData, currentSlideIndex, selectedItemId,
                    editingTextId, error, cropVars, saveWrites, failedSave, toasts, clock,
                    loadPc >>

RemoveAt(seq, i) == [j \in 1..(Len(seq) - 1) |-> IF j < i THEN seq[j] ELSE seq[j + 1]]

\* writeFile resolves: the file holds the content, the dialog closes, the toast shows
saveWriteOk(i) ==
    /\ i \in DOMAIN saveWrites
    /\ rootDirectoryHandle
    /\ boardFile' = JsonFile(saveWrites[i].content)
    /\ saveWrites' = RemoveAt(saveWrites, i)
    /\ showSaveErrorAlert' = FALSE
    /\ toasts' = Append(toasts, "Board Saved")
    /\ Step("saveWriteOk")
    /\ UNCHANGED << rootDirectoryHandle, siblings, boardData, currentSlideIndex,
                    selectedItemId, editingTextId, error, cropVars, failedSave, clock,
                    loadPc >>

\* writeFile rejects: the catch opens the Save Failed dialog
saveWriteFail(i) ==
    /\ i \in DOMAIN saveWrites
    /\ saveWrites' = RemoveAt(saveWrites, i)
    /\ failedSave' = saveWrites[i]
    /\ showSaveErrorAlert' = TRUE
    /\ Step("saveWriteFail")
    /\ UNCHANGED << storageVars, boardData, currentSlideIndex, selectedItemId,
                    editingTextId, error, cropVars, toasts, clock, loadPc >>

\* the board page is left and opened again on the same route
reopenPage ==
    /\ saveWrites = << >>
    /\ insertOp = NoInsert
    /\ nOps < MaxOps
    /\ boardData' = NullBoard
    /\ currentSlideIndex' = 0
    /\ selectedItemId' = null
    /\ editingTextId' = null
    /\ error' = null
    /\ showSaveErrorAlert' = FALSE
    /\ isCropping' = FALSE
    /\ isInserting' = FALSE
    /\ sourceImage' = null
    /\ completedCrop' = FALSE
    /\ readerPending' = FALSE
    /\ loadPc' = "pending"
    /\ toasts' = << >>
    /\ failedSave' = NoSave
    /\ nOps' = nOps + 1
    /\ lastOp' = "reopenPage"
    /\ UNCHANGED << storageVars, saveWrites, insertOp, clock, workspaceVars, graphVars,
                    widgetVars >>

-----------------------------------------------------------------------------
(* SpecLoad: load, save and reload over the generated board files          *)

InitLoad ==
    /\ rootDirectoryHandle \in BOOLEAN
    /\ boardFile \in LoadFiles
    /\ siblings \in SiblingSets
    /\ PageConstructed
    /\ ProviderConstructed
    /\ GraphConstructed
    /\ WidgetsConstructed
    /\ disk = {} /\ pickerSupported = TRUE

NextLoad ==
    \/ loadBoardStart
    \/ loadBoardFinish
    \/ saveBoardClick
    \/ saveRetryClick
    \/ saveCancelClick
    \/ \E i \in 1..MaxSaves : saveWriteOk(i)
    \/ \E i \in 1..MaxSaves : saveWriteFail(i)
    \/ reopenPage

SpecLoad == InitLoad /\ [][NextLoad]_vars

\* SpecLoad where the effect runs once the page is rendered and every readFile
\* returns or fails in the end
SpecLoadFair ==
    /\ InitLoad
    /\ [][NextLoad]_vars
    /\ WF_vars(loadBoardStart)
    /\ WF_vars(loadBoardFinish)

-----------------------------------------------------------------------------
(* Slide and item handlers                                                 *)

MoveStep == 2
RotationStep == 5
FontSizeStep == 2
MinFontSize == 8
ScaleStep == 10
MinScale == 10
WidthStep == 10
MinWidth == 50

Directions == {"up", "down", "left", "right",
               "up-left", "up-right", "down-left", "down-right"}

\* the switch of handleMoveItem: the change of newX and of newY
DeltaX(direction) ==
    IF direction \in {"left", "up-left", "down-left"} THEN 0 - MoveStep
    ELSE IF direction \in {"right", "up-right", "down-right"} THEN MoveStep
    ELSE 0
DeltaY(direction) ==
    IF direction \in {"up", "up-left", "up-right"} THEN 0 - MoveStep
    ELSE IF direction \in {"down", "down-left", "down-right"} THEN MoveStep
    ELSE 0

\* items.find(t => t.id === id): the index of the first match, 0 for none
FindIndex(items, id) ==
    IF \E i \in DOMAIN items : items[i].id = id
    THEN CHOOSE i \in DOMAIN items :
            items[i].id = id /\ \A j \in DOMAIN items : items[j].id = id => i <= j
    ELSE 0

\* the currentItem of the nudge handlers exists
HasCurrentItem == selectedItemId # null /\ FindIndex(CurrentItems, selectedItemId) # 0
CurrentItem == CurrentItems[FindIndex(CurrentItems, selectedItemId)]

\* updateItem applying the updates to every item of the slide
UpdatedSlides_everyItem(bd, index, id, updates) ==
    [s \in DOMAIN bd.slides |->
        IF s = index + 1
        THEN [items |-> [i \in DOMAIN bd.slides[s].items |->
                            updates @@ bd.slides[s].items[i]]]
             @@ bd.slides[s]
        ELSE bd.slides[s]]

\* the slides of updateItem(id, updates) on a non-null board
UpdatedSlides(bd, index, id, updates) ==
    [s \in DOMAIN bd.slides |->
        IF s = index + 1
        THEN [items |-> [i \in DOMAIN bd.slides[s].items |->
                            IF bd.slides[s].items[i].id = id
                            THEN updates @@ bd.slides[s].items[i]
                            ELSE bd.slides[s].items[i]]]
             @@ bd.slides[s]
        ELSE bd.slides[s]]

\* updateItem(id, updates)
updateItem(id, updates) ==
    IF boardData = NullBoard
    THEN UNCHANGED boardData
    ELSE boardData' = [slides |-> UpdatedSlides(boardData, currentSlideIndex, id, updates)]
                      @@ boardData

\* what the nudge handlers leave alone
NudgeFrame ==
    UNCHANGED << storageVars, currentSlideIndex, selectedItemId, editingTextId, error,
                 cropVars, saveVars, toasts, clock, loadPc >>

handleMoveItem(direction) ==
    /\ OutsideTextarea
    /\ Gesture("handleMoveItem")
    /\ IF HasCurrentItem
       THEN updateItem(selectedItemId,
                       [position |-> << CurrentItem.position[1] + DeltaX(direction),
                                        CurrentItem.position[2] + DeltaY(direction) >>])
       ELSE UNCHANGED boardData
    /\ NudgeFrame

handleRotateItem ==
    /\ OutsideTextarea
    /\ Gesture("handleRotateItem")
    /\ IF HasCurrentItem
       THEN updateItem(selectedItemId, [rotation |-> CurrentItem.rotation + RotationStep])
       ELSE UNCHANGED boardData
    /\ NudgeFrame

\* newFontSize of handleScaleItem
NewFontSize(item, scaleDirection) ==
    IF scaleDirection = "up" THEN item.font_size + FontSizeStep
    ELSE Max(MinFontSize, item.font_size - FontSizeStep)

\* newScale of handleScaleItem
NewScale(item, scaleDirection) ==
    IF scaleDirection = "up" THEN item.scale + ScaleStep
    ELSE Max(MinScale, item.scale - ScaleStep)

handleScaleItem(scaleDirection) ==
    /\ OutsideTextarea
    /\ Gesture(IF scaleDirection = "up" THEN "handleScaleItem-up" ELSE "handleScaleItem-down")
    /\ IF HasCurrentItem
       THEN IF CurrentItem.type = "text"
            THEN updateItem(selectedItemId,
                            [font_size |-> NewFontSize(CurrentItem, scaleDirection)])
            ELSE updateItem(selectedItemId,
                            [scale |-> NewScale(CurrentItem, scaleDirection)])
       ELSE UNCHANGED boardData
    /\ NudgeFrame

\* handleWidthChange without its Math.max
NewWidth_unfloored(item, changeDirection) ==
    IF changeDirection = "increase" THEN item.width + WidthStep
    ELSE item.width - WidthStep

\* newWidth of handleWidthChange
NewWidth(item, changeDirection) ==
    IF changeDirection = "increase" THEN item.width + WidthStep
    ELSE Max(MinWidth, item.width - WidthStep)

handleWidthChange(changeDirection) ==
    /\ OutsideTextarea
    /\ Gesture(IF changeDirection = "increase" THEN "handleWidthChange-increase"
               ELSE "handleWidthChange-decrease")
    /\ IF HasCurrentItem
       THEN updateItem(selectedItemId, [width |-> NewWidth(CurrentItem, changeDirection)])
       ELSE UNCHANGED boardData
    /\ NudgeFrame

\* onClick of an item of the current slide
itemClick(i) ==
    /\ OnItem(i)
    /\ i \in DOMAIN CurrentItems
    /\ Gesture("itemClick")
    /\ selectedItemId' = CurrentItems[i].id
    /\ editingTextId' = IF /\ CurrentItems[i].type = "text"
                           /\ editingTextId # null
                           /\ editingTextId # CurrentItems[i].id
                        THEN null ELSE editingTextId
    /\ UNCHANGED << storageVars, boardData, currentSlideIndex, error, cropVars, saveVars,
                    toasts, clock, loadPc >>

\* the slides left with the numbers they have
Renumbered_asTheyAre(slides) == slides

\* slides.map((slide, index) => ({...slide, slide_number: index + 1}))
Renumbered(slides) == [k \in DOMAIN slides |-> [slide_number |-> k] @@ slides[k]]

Min(a, b) == IF a <= b THEN a ELSE b

\* array.slice(from, to) and array.slice(from), 0-based as in the code
Slice(seq, from, to) == SubSeq(seq, from + 1, Min(to, Len(seq)))
SliceFrom(seq, from) == SubSeq(seq, from + 1, Len(seq))

\* handleAddSlide as the older page wrote it: the new slide goes to the end
SlidesWithNew_appended(slides, index) ==
    Renumbered(slides \o << [slide_number |-> 0, items |-> << >>] >>)

\* newSlides of handleAddSlide
SlidesWithNew(slides, index) ==
    Renumbered(Slice(slides, 0, index + 1)
               \o << [slide_number |-> 0, items |-> << >>] >>
               \o SliceFrom(slides, index + 1))

handleAddSlide ==
    /\ OutsideTextarea
    /\ Gesture("handleAddSlide")
    /\ IF boardData = NullBoard
       THEN UNCHANGED << boardData, currentSlideIndex >>
       ELSE /\ boardData' = [slides |-> SlidesWithNew(boardData.slides, currentSlideIndex)]
                            @@ boardData
            /\ currentSlideIndex' = currentSlideIndex + 1
    /\ UNCHANGED << storageVars, selectedItemId, editingTextId, error, cropVars, saveVars,
                    toasts, clock, loadPc >>

\* handleDeleteSlide without its renumbering map
SlidesWithout_stale(slides, index) ==
    Slice(slides, 0, index) \o SliceFrom(slides, index + 1)

\* renumberedSlides of handleDeleteSlide: slides.filter((_, i) => i !== index), renumbered
SlidesWithout(slides, index) ==
    Renumbered(Slice(slides, 0, index) \o SliceFrom(slides, index + 1))

\* handleDeleteSlide leaving the index where it is
newIndex_unchanged(index) == index

\* newIndex of handleDeleteSlide
newIndex(index) == Max(0, index - 1)

handleDeleteSlide ==
    /\ OutsideTextarea
    /\ Gesture("handleDeleteSlide")
    /\ IF boardData # NullBoard /\ Len(boardData.slides) > 1
       THEN /\ boardData' = [slides |-> SlidesWithout(boardData.slides, currentSlideIndex)]
                            @@ boardData
            /\ currentSlideIndex' = newIndex(currentSlideIndex)
       ELSE UNCHANGED << boardData, currentSlideIndex >>
    /\ UNCHANGED << storageVars, selectedItemId, editingTextId, error, cropVars, saveVars,
                    toasts, clock, loadPc >>

\* onClick of the thumbnail of slide `index`
handleThumbnailClick(index) ==
    /\ OutsideTextarea
    /\ index + 1 \in 1..SlideCount
    /\ Gesture("handleThumbnailClick")
    /\ currentSlideIndex' = index
    /\ selectedItemId' = null
    /\ UNCHANGED << storageVars, boardData, editingTextId, error, cropVars, saveVars,
                    toasts, clock, loadPc >>

\* newText of handleAddText
NewText(now) ==
    [id |-> "text-" \o ToString(now), type |-> "text", content |-> "New Text",
     position |-> <<50, 50>>, font_size |-> 24, width |-> 200, rotation |-> 0]

\* slides with nothing appended, as an insertion that was given up leaves them
SlidesWithItem_aborted(slides, index, item) == slides

\* slides with `item` appended to the slide at `index`
SlidesWithItem(slides, index, item) ==
    [s \in DOMAIN slides |->
        IF s = index + 1
        THEN [items |-> Append(slides[s].items, item)] @@ slides[s]
        ELSE slides[s]]

handleAddText ==
    /\ OutsideTextarea
    /\ Gesture("handleAddText")
    /\ IF boardData = NullBoard
       THEN UNCHANGED << boardData, clock >>
       ELSE /\ boardData' = [slides |-> SlidesWithItem(boardData.slides, currentSlideIndex,
                                                       NewText(clock))]
                            @@ boardData
            /\ clock' = clock + 1
    /\ UNCHANGED << storageVars, currentSlideIndex, selectedItemId, editingTextId, error,
                    cropVars, saveVars, toasts, loadPc >>

\* items.filter(item => item.id !== id)
ItemsWithout(items, id) ==
    LET keep == {i \in DOMAIN items : items[i].id # id}
        nth(k) == CHOOSE i \in keep : Cardinality({j \in keep : j < i}) = k - 1
    IN  [k \in 1..Cardinality(keep) |-> items[nth(k)]]

handleDeleteItem ==
    /\ OutsideTextarea
    /\ Gesture("handleDeleteItem")
    /\ IF selectedItemId = null \/ boardData = NullBoard
       THEN UNCHANGED << boardData, selectedItemId >>
       ELSE /\ boardData' =
                [slides |-> [s \in DOMAIN boardData.slides |->
                    IF s = currentSlideIndex + 1
                    THEN [items |-> ItemsWithout(boardData.slides[s].items, selectedItemId)]
                         @@ boardData.slides[s]
                    ELSE boardData.slides[s]]]
                @@ boardData
            /\ selectedItemId' = null
    /\ UNCHANGED << storageVars, currentSlideIndex, editingTextId, error, cropVars, saveVars,
                    toasts, clock, loadPc >>

-----------------------------------------------------------------------------
(* Inline text edit                                                        *)

\* what the keyboard may leave in the Textarea
TypedContents == {"Edited", " "}

handleTextDoubleClick(i) ==
    /\ OnItem(i)
    /\ i \in DOMAIN CurrentItems
    /\ CurrentItems[i].type = "text"
    /\ Gesture("handleTextDoubleClick")
    /\ editingTextId' = CurrentItems[i].id
    /\ selectedItemId' = CurrentItems[i].id
    /\ UNCHANGED << storageVars, boardData, currentSlideIndex, error, cropVars, saveVars,
                    toasts, clock, loadPc >>

handleTextChange(i, newContent) ==
    /\ Interactive
    /\ TextareaShown(i)
    /\ Gesture("handleTextChange")
    /\ updateItem(CurrentItems[i].id, [content |-> newContent])
    /\ NudgeFrame

handleTextBlur ==
    /\ Interactive
    /\ \E i \in DOMAIN CurrentItems : TextareaShown(i)
    /\ Gesture("handleTextBlur")
    /\ editingTextId' = null
    /\ UNCHANGED << storageVars, boardData, currentSlideIndex, selectedItemId, error,
                    cropVars, saveVars, toasts, clock, loadPc >>

\* a key, Escape included, goes down in the Textarea: the handler only stops the
\* event from reaching the keyboard controls
textareaKeyDown ==
    /\ Interactive
    /\ \E i \in DOMAIN CurrentItems : TextareaShown(i)
    /\ Gesture("textareaKeyDown")
    /\ UNCHANGED << storageVars, boardData, currentSlideIndex, selectedItemId,
                    editingTextId, error, cropVars, saveVars, toasts, clock, loadPc >>

-----------------------------------------------------------------------------
(* Image insertion                                                         *)

DefaultImageWidth == 300
\* defaultWidth / aspectRatio for the crop the model inserts
CroppedImageHeight == 150

\* the crop dialog is the topmost dialog
CropDialogOnTop == isCropping /\ ~showSaveErrorAlert

\* imgRef.current: the preview image is mounted
ImgMounted == isCropping /\ sourceImage # null

onSelectFile ==
    /\ OutsideTextarea
    /\ Gesture("onSelectFile")
    /\ readerPending' = TRUE
    /\ isCropping' = TRUE
    /\ UNCHANGED << storageVars, boardData, currentSlideIndex, selectedItemId,
                    editingTextId, error, isInserting, sourceImage, completedCrop, insertOp,
                    saveVars, toasts, clock, loadPc >>

\* the load event of the FileReader: setSourceImage(reader.result)
fileReaderLoad ==
    /\ readerPending
    /\ readerPending' = FALSE
    /\ sourceImage' = "data:image/png"
    /\ Step("fileReaderLoad")
    /\ UNCHANGED << storageVars, boardData, currentSlideIndex, selectedItemId,
                    editingTextId, error, isCropping, isInserting, completedCrop, insertOp,
                    saveVars, toasts, clock, loadPc >>

\* onImageLoad of the preview (and onComplete of the crop tool): setCompletedCrop
onImageLoad ==
    /\ ImgMounted
    /\ ~completedCrop
    /\ completedCrop' = TRUE
    /\ Step("onImageLoad")
    /\ UNCHANGED << storageVars, boardData, currentSlideIndex, selectedItemId,
                    editingTextId, error, isCropping, isInserting, sourceImage,
                    readerPending, insertOp, saveVars, toasts, clock, loadPc >>

\* Cancel of the crop dialog, and its onOpenChange(false)
cropCancelClick ==
    /\ CropDialogOnTop
    /\ Gesture("cropCancel")
    /\ isCropping' = FALSE
    /\ sourceImage' = null
    /\ UNCHANGED << storageVars, boardData, currentSlideIndex, selectedItemId,
                    editingTextId, error, isInserting, completedCrop, readerPending,
                    insertOp, saveVars, toasts, clock, loadPc >>

\* handleInsertImage up to await getProcessedImage; the button is disabled while inserting
handleInsertImage ==
    /\ CropDialogOnTop
    /\ ~isInserting
    /\ Gesture("handleInsertImage")
    /\ IF ~completedCrop \/ ~ImgMounted
       THEN UNCHANGED << isInserting, insertOp >>
       ELSE /\ isInserting' = TRUE
            /\ insertOp' = [stage |-> "processing", boardData |-> boardData,
                            currentSlideIndex |-> currentSlideIndex]
    /\ UNCHANGED << storageVars, boardData, currentSlideIndex, selectedItemId,
                    editingTextId, error, isCropping, sourceImage, completedCrop,
                    readerPending, saveVars, toasts, clock, loadPc >>

\* the catch and the finally of handleInsertImage
insertFailed(name) ==
    /\ toasts' = Append(toasts, "Image processing failed")
    /\ insertOp' = NoInsert
    /\ isInserting' = FALSE
    /\ isCropping' = FALSE
    /\ sourceImage' = null
    /\ Step(name)
    /\ UNCHANGED << storageVars, boardData, currentSlideIndex, selectedItemId,
                    editingTextId, error, completedCrop, readerPending, saveVars, clock,
                    loadPc >>

\* getProcessedImage resolves: newFilename is made and writeFile is called
insertProcessedOk ==
    /\ insertOp.stage = "processing"
    /\ insertOp' = [stage |-> "writing", filename |-> "edited-" \o ToString(clock) \o ".png"]
                   @@ insertOp
    /\ clock' = clock + 1
    /\ Step("insertProcessedOk")
    /\ UNCHANGED << storageVars, boardData, currentSlideIndex, selectedItemId,
                    editingTextId, error, isCropping, isInserting, sourceImage,
                    completedCrop, readerPending, saveVars, toasts, loadPc >>

\* getProcessedImage rejects: no canvas context, or an empty canvas
insertProcessedFail ==
    /\ insertOp.stage = "processing"
    /\ insertFailed("insertProcessedFail")

\* writeFile of the sibling PNG resolves; the handler awaits the decoded image
insertWriteOk ==
    /\ insertOp.stage = "writing"
    /\ rootDirectoryHandle
    /\ siblings' = siblings \cup {insertOp.filename}
    /\ insertOp' = [stage |-> "decoding"] @@ insertOp
    /\ Step("insertWriteOk")
    /\ UNCHANGED << rootDirectoryHandle, boardFile, boardData, currentSlideIndex,
                    selectedItemId, editingTextId, error, isCropping, isInserting,
                    sourceImage, completedCrop, readerPending, saveVars, toasts, clock,
                    loadPc >>

\* writeFile of the sibling PNG rejects
insertWriteFail ==
    /\ insertOp.stage = "writing"
    /\ insertFailed("insertWriteFail")

\* newImageItem of handleInsertImage
NewImageItem(now, filename) ==
    [id |-> "img-" \o ToString(now), type |-> "image", filename |-> filename,
     position |-> <<50, 50>>, rotation |-> 0, scale |-> 100,
     width |-> DefaultImageWidth, height |-> CroppedImageHeight,
     src |-> "blob:" \o filename]

\* the image is decoded: the item is appended to the captured boardData; the finally
insertFinish ==
    /\ insertOp.stage = "decoding"
    /\ IF insertOp.boardData = NullBoard
       THEN UNCHANGED boardData
       ELSE boardData' =
                [slides |-> SlidesWithItem(insertOp.boardData.slides,
                                           insertOp.currentSlideIndex,
                                           NewImageItem(clock, insertOp.filename))]
                @@ insertOp.boardData
    /\ clock' = clock + 1
    /\ insertOp' = NoInsert
    /\ isInserting' = FALSE
    /\ isCropping' = FALSE
    /\ sourceImage' = null
    /\ Step("insertFinish")
    /\ UNCHANGED << storageVars, currentSlideIndex, selectedItemId, editingTextId, error,
                    completedCrop, readerPending, saveVars, toasts, loadPc >>

-----------------------------------------------------------------------------
(* Spec: the editing handlers over a loaded board                          *)

\* the board files the editing handlers are checked on
EditFiles ==
    { JsonFile([slides |-> <<
          [slide_number |-> 1,
           items |-> << [id |-> "t1", type |-> "text", content |-> "Hi",
                         position |-> <<0, 0>>, rotation |-> 5, font_size |-> 9,
                         width |-> 55],
                        [id |-> "i1", type |-> "image", filename |-> "a.png",
                         position |-> <<100, 98>>, rotation |-> 90, width |-> 300,
                         height |-> 150, scale |-> 15] >>],
          [slide_number |-> 2, items |-> << >>],
          [slide_number |-> 3, items |-> << [content |-> "Old"] >>] >>]),
      JsonFile([slides |-> <<
          [slide_number |-> 1,
           items |-> << [id |-> "t9", type |-> "text", content |-> "Solo",
                         position |-> <<50, 50>>, font_size |-> 24, width |-> 200] >>] >>]),
      JsonFile([slides |-> << >>]) }

Init ==
    /\ rootDirectoryHandle = TRUE
    /\ boardFile \in EditFiles
    /\ siblings = {"a.png"}
    /\ PageConstructed
    /\ ProviderConstructed
    /\ GraphConstructed
    /\ WidgetsConstructed
    /\ disk = {} /\ pickerSupported = TRUE

Next ==
    \/ loadBoardStart
    \/ loadBoardFinish
    \/ \E i \in 1..(MaxRawItems + MaxOps) : itemClick(i)
    \/ \E direction \in Directions : handleMoveItem(direction)
    \/ handleRotateItem
    \/ \E scaleDirection \in {"up", "down"} : handleScaleItem(scaleDirection)
    \/ \E changeDirection \in {"increase", "decrease"} : handleWidthChange(changeDirection)
    \/ handleAddSlide
    \/ handleDeleteSlide
    \/ \E index \in 0..(MaxOps + 2) : handleThumbnailClick(index)
    \/ handleAddText
    \/ handleDeleteItem
    \/ \E i \in 1..(MaxRawItems + MaxOps) : handleTextDoubleClick(i)
    \/ \E i \in 1..(MaxRawItems + MaxOps), c \in TypedContents : handleTextChange(i, c)
    \/ handleTextBlur
    \/ textareaKeyDown

Spec == Init /\ [][Next]_vars

-----------------------------------------------------------------------------
(* SpecIO: save, retry and image insertion interleaved with an edit        *)

\* the board file the save and the insertion are checked on
IOFiles ==
    { JsonFile([slides |-> <<
          [slide_number |-> 1,
           items |-> << [id |-> "t1", type |-> "text", content |-> "Hi",
                         position |-> <<10, 10>>, rotation |-> 0, font_size |-> 24,
                         width |-> 200],
                        [id |-> "i1", type |-> "image", filename |-> "a.png",
                         position |-> <<50, 50>>, rotation |-> 0, width |-> 300,
                         height |-> 150, scale |-> 100] >>] >>]) }

InitIO ==
    /\ rootDirectoryHandle = TRUE
    /\ boardFile \in IOFiles
    /\ siblings = {"a.png"}
    /\ PageConstructed
    /\ ProviderConstructed
    /\ GraphConstructed
    /\ WidgetsConstructed
    /\ disk = {} /\ pickerSupported = TRUE

NextIO ==
    \/ loadBoardStart
    \/ loadBoardFinish
    \/ saveBoardClick
    \/ saveRetryClick
    \/ saveCancelClick
    \/ \E i \in 1..MaxSaves : saveWriteOk(i)
    \/ \E i \in 1..MaxSaves : saveWriteFail(i)
    \/ handleAddText
    \/ handleAddSlide
    \/ onSelectFile
    \/ fileReaderLoad
    \/ onImageLoad
    \/ cropCancelClick
    \/ handleInsertImage
    \/ insertProcessedOk
    \/ insertProcessedFail
    \/ insertWriteOk
    \/ insertWriteFail
    \/ insertFinish

SpecIO == InitIO /\ [][NextIO]_vars

-----------------------------------------------------------------------------
(* Workspace State Manager: storage                                        *)

\* a mounted workspace is gesture-bounded like the editor
MaxWsOps == 3
\* removals and enumerations that may be unsettled at once
MaxWsPending == 2

\* the directories the picker can hand out
Roots == { <<"ws">>, <<"other">> }

Entry(dir, name, kind) == [dir |-> dir, name |-> name, kind |-> kind]

\* the storage the user's folders hold when the application starts
InitialDisk ==
    { Entry(<<"ws">>, "A", "directory"),
      Entry(<<"ws">>, "b.board", "file"),
      Entry(<<"ws">>, "a.board", "file"),
      Entry(<<"ws">>, "notes.txt", "file"),
      Entry(<<"ws", "A">>, "c.board", "file"),
      Entry(<<"ws", "A">>, "Z.board", "file"),
      Entry(<<"ws", "A">>, "m", "directory"),
      Entry(<<"other">>, "x.board", "file") }

\* a handle is the chain of names that leads to the directory
HandleName(handle) == handle[Len(handle)]
HandleOf(e) == Append(e.dir, e.name)

DirExists(d, handle) ==
    \/ handle \in Roots
    \/ \E e \in d : e.kind = "directory" /\ HandleOf(e) = handle

\* handle.values(): the entries directly inside the directory
Entries(d, handle) == { e \in d : e.dir = handle }

\* removeEntry(name, {recursive}): the entry and, for a directory, all below it
DiskWithout(d, handle, name) ==
    LET IsPrefix(p, s) == Len(p) <= Len(s) /\ SubSeq(s, 1, Len(p)) = p
    IN  { e \in d : ~(e.dir = handle /\ e.name = name)
                    /\ ~IsPrefix(Append(handle, name), e.dir) }

\* the characters of the strings the provider handles
Chars(name) ==
    CASE name = "A" -> <<"A">>
      [] name = "m" -> <<"m">>
      [] name = ".board" -> <<".", "b", "o", "a", "r", "d">>
      [] name = "ws" -> <<"w", "s">>
      [] name = "other" -> <<"o", "t", "h", "e", "r">>
      [] name = "a.board" -> <<"a", ".", "b", "o", "a", "r", "d">>
      [] name = "b.board" -> <<"b", ".", "b", "o", "a", "r", "d">>
      [] name = "c.board" -> <<"c", ".", "b", "o", "a", "r", "d">>
      [] name = "x.board" -> <<"x", ".", "b", "o", "a", "r", "d">>
      [] name = "Z.board" -> <<"Z", ".", "b", "o", "a", "r", "d">>
      [] name = "notes.txt" -> <<"n", "o", "t", "e", "s", ".", "t", "x", "t">>

\* String.prototype.endsWith
endsWith(chars, suffix) ==
    /\ Len(suffix) <= Len(chars)
    /\ SubSeq(chars, Len(chars) - Len(suffix) + 1, Len(chars)) = suffix

RECURSIVE CompareWeights(_, _)
CompareWeights(u, v) ==
    IF u = << >> /\ v = << >> THEN 0
    ELSE IF u = << >> THEN -1
    ELSE IF v = << >> THEN 1
    ELSE IF Head(u) < Head(v) THEN -1
    ELSE IF Head(u) > Head(v) THEN 1
    ELSE CompareWeights(Tail(u), Tail(v))

\* String.prototype.localeCompare with the default collation: punctuation before
\* letters, letters alphabetical whatever their case, and on a tie lower case
\* before upper case
localeCompare(a, b) ==
    LET LowerCase == << "a", "b", "c", "d", "e", "f", "g", "h", "i", "j", "k", "l", "m",
                        "n", "o", "p", "q", "r", "s", "t", "u", "v", "w", "x", "y", "z" >>
        UpperCase == << "A", "B", "C", "D", "E", "F", "G", "H", "I", "J", "K", "L", "M",
                        "N", "O", "P", "Q", "R", "S", "T", "U", "V", "W", "X", "Y", "Z" >>
        PrimaryWeight(c) ==
            IF c = "." THEN 0
            ELSE CHOOSE i \in DOMAIN LowerCase : LowerCase[i] = c \/ UpperCase[i] = c
        CaseWeight(c) == IF \E i \in DOMAIN UpperCase : UpperCase[i] = c THEN 1 ELSE 0
        pa == [i \in DOMAIN Chars(a) |-> PrimaryWeight(Chars(a)[i])]
        pb == [i \in DOMAIN Chars(b) |-> PrimaryWeight(Chars(b)[i])]
        ca == [i \in DOMAIN Chars(a) |-> CaseWeight(Chars(a)[i])]
        cb == [i \in DOMAIN Chars(b) |-> CaseWeight(Chars(b)[i])]
    IN  IF CompareWeights(pa, pb) # 0 THEN CompareWeights(pa, pb)
        ELSE CompareWeights(ca, cb)

\* the comparator without its two kind tests
compareItems_byName(a, b) == localeCompare(a.name, b.name)

\* the comparator getDirectoryContents sorts with
compareItems(a, b) ==
    IF a.kind = "directory" /\ b.kind = "file" THEN -1
    ELSE IF a.kind = "file" /\ b.kind = "directory" THEN 1
    ELSE localeCompare(a.name, b.name)

\* Array.prototype.sort: stable, so an element goes after the ones it ties with
RECURSIVE Insert(_, _)
Insert(sorted, x) ==
    IF sorted = << >> THEN << x >>
    ELSE IF compareItems(x, Head(sorted)) < 0 THEN << x >> \o sorted
    ELSE << Head(sorted) >> \o Insert(Tail(sorted), x)

RECURSIVE Sort(_)
Sort(seq) ==
    IF seq = << >> THEN << >>
    ELSE Insert(Sort(SubSeq(seq, 1, Len(seq) - 1)), seq[Len(seq)])

\* the orders in which handle.values() may yield the entries
Enumerations(S) ==
    { f \in [1..Cardinality(S) -> S] : \A i, j \in 1..Cardinality(S) : f[i] = f[j] => i = j }

Item(e) == [name |-> e.name, kind |-> e.kind, handle |-> HandleOf(e)]

\* the loop of getDirectoryContents: directories and .board files, in yield order
RECURSIVE Contents(_)
Contents(raw) ==
    IF raw = << >> THEN << >>
    ELSE LET entry == Head(raw)
         IN  IF \/ entry.kind = "directory"
                \/ entry.kind = "file" /\ endsWith(Chars(entry.name), Chars(".board"))
             THEN << Item(entry) >> \o Contents(Tail(raw))
             ELSE Contents(Tail(raw))

\* what getDirectoryContents hands to setDirectoryContents
Listing(raw) == Sort(Contents(raw))

-----------------------------------------------------------------------------
(* Workspace State Manager and File Browser Page: operations                *)

\* a JavaScript value a handler may return
JSUndefined == [type |-> "undefined"]
JSString(chars) == [type |-> "string", chars |-> chars]
Promise(value) == [type |-> "promise", resolved |-> value]

Truthy(v) ==
    CASE v.type = "undefined" -> FALSE
      [] v.type = "string" -> v.chars # << >>
      [] v.type = "promise" -> TRUE

\* String(v), as encodeURIComponent applies it to its argument
ToStringChars(v) ==
    CASE v.type = "undefined" -> << "u", "n", "d", "e", "f", "i", "n", "e", "d" >>
      [] v.type = "string" -> v.chars
      [] v.type = "promise" -> << "[", "o", "b", "j", "e", "c", "t", " ",
                                  "P", "r", "o", "m", "i", "s", "e", "]" >>

\* Array.prototype.join over names
RECURSIVE Join(_, _)
Join(names, sep) ==
    IF names = << >> THEN << >>
    ELSE IF Len(names) = 1 THEN Chars(names[1])
    ELSE Chars(names[1]) \o << sep >> \o Join(Tail(names), sep)

RECURSIVE encodeURIComponent(_)
encodeURIComponent(chars) ==
    LET EncodeChar(c) == CASE c = "/" -> "%2F"
                           [] c = " " -> "%20"
                           [] c = "[" -> "%5B"
                           [] c = "]" -> "%5D"
                           [] OTHER -> c
    IN  IF chars = << >> THEN ""
        ELSE EncodeChar(Head(chars)) \o encodeURIComponent(Tail(chars))

Segment(handle) == [name |-> HandleName(handle), handle |-> handle]

NoItem == [name |-> "", kind |-> "", handle |-> NoHandle]

\* an enumeration under way; toast is what its caller shows once it settles
ListOp(handle, toast) ==
    [op |-> "list", handle |-> handle, item |-> NoItem, toast |-> toast]
RemoveOp(handle, item, toast) ==
    [op |-> "remove", handle |-> handle, item |-> item, toast |-> toast]

\* a gesture on the File Browser Page: the page is shown and no picker covers it
WsGesture(name) ==
    /\ route = "/"
    /\ mountPc = "idle"
    /\ nOps < MaxWsOps
    /\ nOps' = nOps + 1
    /\ lastOp' = name
    /\ UNCHANGED << thrown, editorVars, graphVars, widgetVars >>

\* the settling of something the provider awaits
WsStep(name) ==
    nOps' = nOps /\ lastOp' = name
    /\ UNCHANGED << thrown, editorVars, graphVars, widgetVars >>

\* the page renders its rows only once a root is mounted
Browsing == wsRootDirectoryHandle # NoHandle

ProviderState ==
    [called |-> TRUE,
     root |-> wsRootDirectoryHandle,
     current |-> currentDirectoryHandle,
     path |-> path,
     listing |-> directoryContents,
     error |-> wsError,
     ops |-> wsOps]

\* mount() up to its await of the picker
mount ==
    /\ WsGesture("mount")
    /\ mountBefore' = ProviderState
    /\ directoryContents' = << >>
    /\ IF pickerSupported
       THEN wsError' = null /\ mountPc' = "picking"
       ELSE wsError' = "Your browser does not support the File System Access API." /\ mountPc' = "idle"
    /\ UNCHANGED << disk, pickerSupported, wsRootDirectoryHandle, currentDirectoryHandle,
                    path, wsOps, route, itemClickResult, toasts >>

\* mount() after the picker, with the path left as it was
showDirectoryPickerResolved_keepsPath(handle) ==
    /\ mountPc = "picking"
    /\ handle \in Roots
    /\ Len(wsOps) < MaxWsPending
    /\ WsStep("showDirectoryPickerResolved")
    /\ wsRootDirectoryHandle' = handle
    /\ currentDirectoryHandle' = handle
    /\ path' = IF path = << >> THEN << Segment(handle) >> ELSE path
    /\ wsError' = null
    /\ wsOps' = Append(wsOps, ListOp(handle, null))
    /\ mountPc' = "idle"
    /\ UNCHANGED << disk, pickerSupported, directoryContents, mountBefore, route,
                    itemClickResult, toasts >>

\* the user picks a folder: mount() sets root, current and path and starts the listing
showDirectoryPickerResolved(handle) ==
    /\ mountPc = "picking"
    /\ handle \in Roots
    /\ Len(wsOps) < MaxWsPending
    /\ WsStep("showDirectoryPickerResolved")
    /\ wsRootDirectoryHandle' = handle
    /\ currentDirectoryHandle' = handle
    /\ path' = << Segment(handle) >>
    /\ wsError' = null
    /\ wsOps' = Append(wsOps, ListOp(handle, null))
    /\ mountPc' = "idle"
    /\ UNCHANGED << disk, pickerSupported, directoryContents, mountBefore, route,
                    itemClickResult, toasts >>

\* the user dismisses the picker: AbortError, which mount() catches and drops
showDirectoryPickerAborted ==
    /\ mountPc = "picking"
    /\ WsStep("showDirectoryPickerAborted")
    /\ mountPc' = "idle"
    /\ UNCHANGED << disk, pickerSupported, wsRootDirectoryHandle, currentDirectoryHandle,
                    directoryContents, path, wsError, mountBefore, wsOps, route,
                    itemClickResult, toasts >>

\* the picker fails otherwise (a folder the browser refuses to open)
showDirectoryPickerRejected ==
    /\ mountPc = "picking"
    /\ WsStep("showDirectoryPickerRejected")
    /\ mountPc' = "idle"
    /\ wsError' = "An error occurred while trying to access the folder."
    /\ UNCHANGED << disk, pickerSupported, wsRootDirectoryHandle, currentDirectoryHandle,
                    directoryContents, path, mountBefore, wsOps, route,
                    itemClickResult, toasts >>

\* an enumeration completes: the sorted listing replaces the shown one
getDirectoryContentsResolved(k) ==
    /\ k \in DOMAIN wsOps
    /\ wsOps[k].op = "list"
    /\ DirExists(disk, wsOps[k].handle)
    /\ WsStep("getDirectoryContentsResolved")
    /\ \E raw \in Enumerations(Entries(disk, wsOps[k].handle)) :
           directoryContents' = Listing(raw)
    /\ toasts' = IF wsOps[k].toast = null THEN toasts ELSE Append(toasts, wsOps[k].toast)
    /\ wsOps' = RemoveAt(wsOps, k)
    /\ UNCHANGED << disk, pickerSupported, wsRootDirectoryHandle, currentDirectoryHandle,
                    path, wsError, mountPc, mountBefore, route, itemClickResult >>

\* an enumeration throws (the directory is gone): the error is set, the listing kept
getDirectoryContentsRejected(k) ==
    /\ k \in DOMAIN wsOps
    /\ wsOps[k].op = "list"
    /\ ~DirExists(disk, wsOps[k].handle)
    /\ WsStep("getDirectoryContentsRejected")
    /\ wsError' = "Could not read directory contents."
    /\ toasts' = IF wsOps[k].toast = null THEN toasts ELSE Append(toasts, wsOps[k].toast)
    /\ wsOps' = RemoveAt(wsOps, k)
    /\ UNCHANGED << disk, pickerSupported, wsRootDirectoryHandle, currentDirectoryHandle,
                    directoryContents, path, mountPc, mountBefore, route, itemClickResult >>

\* handleBreadcrumbClick(index) of the provider
handleBreadcrumbClick(index) ==
    LET newPath == Slice(path, 0, index + 1)
        newHandle == newPath[Len(newPath)].handle
    IN  /\ path' = newPath
        /\ currentDirectoryHandle' = newHandle
        /\ wsError' = null
        /\ wsOps' = Append(wsOps, ListOp(newHandle, null))

\* a click on a breadcrumb; the last one is rendered disabled
breadcrumbClick(index) ==
    /\ Browsing
    /\ index \in 0..(Len(path) - 2)
    /\ Len(wsOps) < MaxWsPending
    /\ WsGesture("handleBreadcrumbClick")
    /\ handleBreadcrumbClick(index)
    /\ UNCHANGED << disk, pickerSupported, wsRootDirectoryHandle, directoryContents,
                    mountPc, mountBefore, route, itemClickResult, toasts >>

\* the back arrow, rendered when the path is deeper than the root
handleBackClick ==
    /\ Browsing
    /\ Len(path) > 1
    /\ Len(wsOps) < MaxWsPending
    /\ WsGesture("handleBackClick")
    /\ handleBreadcrumbClick(Len(path) - 2)
    /\ UNCHANGED << disk, pickerSupported, wsRootDirectoryHandle, directoryContents,
                    mountPc, mountBefore, route, itemClickResult, toasts >>

\* the names handleItemClick joins for a file
PathParts(item) ==
    [i \in 1..(Len(path) - 1) |-> path[i + 1].name] \o << item.name >>

\* what the provider's handleItemClick hands back: it is an async function
handleItemClickResult(item) ==
    IF item.kind = "directory"
    THEN Promise(JSUndefined)
    ELSE Promise(JSString(Join(PathParts(item), "/")))

\* a click on a row: Home.handleItemClick around the provider's handleItemClick
HomeHandleItemClick(i) ==
    /\ Browsing
    /\ i \in DOMAIN directoryContents
    /\ LET item == directoryContents[i]
           fullPath == handleItemClickResult(item)
       IN  /\ WsGesture(IF item.kind = "directory" THEN "handleItemClick:directory"
                                                   ELSE "handleItemClick:file")
           /\ itemClickResult' = fullPath
           /\ IF item.kind = "directory"
              THEN /\ Len(wsOps) < MaxWsPending
                   /\ currentDirectoryHandle' = item.handle
                   /\ path' = Append(path, [name |-> item.name, handle |-> item.handle])
                   /\ wsError' = null
                   /\ wsOps' = Append(wsOps, ListOp(item.handle, null))
              ELSE UNCHANGED << currentDirectoryHandle, path, wsError, wsOps >>
           /\ route' = IF item.kind = "file" /\ Truthy(fullPath)
                       THEN "/board/" \o encodeURIComponent(ToStringChars(fullPath))
                       ELSE route
    /\ UNCHANGED << disk, pickerSupported, wsRootDirectoryHandle, directoryContents,
                    mountPc, mountBefore, toasts >>

\* the board page's back button: router.push('/')
routerPushHome ==
    /\ route # "/"
    /\ WsStep("routerPushHome")
    /\ route' = "/"
    /\ UNCHANGED << disk, pickerSupported, wsRootDirectoryHandle, currentDirectoryHandle,
                    directoryContents, path, wsError, mountPc, mountBefore, wsOps,
                    itemClickResult, toasts >>

DeletedTitle(item) == (IF item.kind = "directory" THEN "Folder" ELSE "File") \o " Deleted"

\* the row's Delete: Home.handleDeleteItem calls deleteItem, which starts removeEntry
HomeHandleDeleteItem(i) ==
    /\ Browsing
    /\ i \in DOMAIN directoryContents
    /\ WsGesture("handleDeleteItem")
    /\ LET item == directoryContents[i]
       IN  IF currentDirectoryHandle = NoHandle
           THEN /\ toasts' = Append(toasts, DeletedTitle(item))
                /\ wsOps' = wsOps
           ELSE /\ Len(wsOps) < MaxWsPending
                /\ wsOps' = Append(wsOps, RemoveOp(currentDirectoryHandle, item,
                                                   DeletedTitle(item)))
                /\ toasts' = toasts
    /\ UNCHANGED << disk, pickerSupported, wsRootDirectoryHandle, currentDirectoryHandle,
                    directoryContents, path, wsError, mountPc, mountBefore, route,
                    itemClickResult >>

\* removeEntry resolves: the entry is gone and deleteItem goes on to re-list
removeEntryResolved(k) ==
    /\ k \in DOMAIN wsOps
    /\ wsOps[k].op = "remove"
    /\ \E e \in Entries(disk, wsOps[k].handle) : e.name = wsOps[k].item.name
    /\ WsStep("removeEntryResolved")
    /\ disk' = DiskWithout(disk, wsOps[k].handle, wsOps[k].item.name)
    /\ wsError' = null
    /\ wsOps' = [wsOps EXCEPT ![k] = ListOp(wsOps[k].handle, wsOps[k].toast)]
    /\ UNCHANGED << pickerSupported, wsRootDirectoryHandle, currentDirectoryHandle,
                    directoryContents, path, mountPc, mountBefore, route,
                    itemClickResult, toasts >>

\* removeEntry rejects (no write permission granted, or the entry is already gone):
\* deleteItem catches it and sets the error, and Home.handleDeleteItem goes on
removeEntryRejected(k) ==
    /\ k \in DOMAIN wsOps
    /\ wsOps[k].op = "remove"
    /\ WsStep("removeEntryRejected")
    /\ wsError' = "Could not delete: " \o wsOps[k].item.name
    /\ toasts' = Append(toasts, wsOps[k].toast)
    /\ wsOps' = RemoveAt(wsOps, k)
    /\ UNCHANGED << disk, pickerSupported, wsRootDirectoryHandle, currentDirectoryHandle,
                    directoryContents, path, mountPc, mountBefore, route,
                    itemClickResult >>

InitWorkspace ==
    /\ rootDirectoryHandle = FALSE
    /\ boardFile = MissingFile
    /\ siblings = {}
    /\ PageConstructed
    /\ ProviderConstructed
    /\ GraphConstructed
    /\ WidgetsConstructed
    /\ disk = InitialDisk
    /\ pickerSupported \in BOOLEAN

NextWorkspace ==
    \/ mount
    \/ \E handle \in Roots : showDirectoryPickerResolved(handle)
    \/ showDirectoryPickerAborted
    \/ showDirectoryPickerRejected
    \/ \E k \in 1..MaxWsPending : getDirectoryContentsResolved(k)
    \/ \E k \in 1..MaxWsPending : getDirectoryContentsRejected(k)
    \/ \E index \in 0..MaxWsOps : breadcrumbClick(index)
    \/ handleBackClick
    \/ \E i \in 1..3 : HomeHandleItemClick(i)
    \/ routerPushHome
    \/ \E i \in 1..3 : HomeHandleDeleteItem(i)
    \/ \E k \in 1..MaxWsPending : removeEntryResolved(k)
    \/ \E k \in 1..MaxWsPending : removeEntryRejected(k)

SpecWorkspace == InitWorkspace /\ [][NextWorkspace]_vars

-----------------------------------------------------------------------------
(* Workspace State Manager: files by path                                  *)

\* what filePath.split('/') yields for the paths the callers pass
Paths ==
    { << "A", "c.board" >>, << "A", "", "nope.board" >>, << "nodir", "c.board" >>,
      << "A", "" >> }

\* parts.pop()
FileName(parts) == parts[Len(parts)]
\* the parts left that name a directory: the loop of getFileHandle skips the
\* empty ones, getDirectoryHandle filters them out
DirectoryParts(parts) == SelectSeq(SubSeq(parts, 1, Len(parts) - 1), LAMBDA part : part # "")

\* parts.join('/')
RECURSIVE JoinPath(_)
JoinPath(parts) ==
    IF parts = << >> THEN ""
    ELSE IF Len(parts) = 1 THEN parts[1]
    ELSE parts[1] \o "/" \o JoinPath(Tail(parts))

\* a readFile / deleteItemByPath call walking down from the root
PathOp(op, parts) ==
    [op |-> op, handle |-> wsRootDirectoryHandle, parts |-> DirectoryParts(parts),
     fileName |-> FileName(parts),
     dirPath |-> JoinPath(SubSeq(parts, 1, Len(parts) - 1))]

\* currentHandle.getDirectoryHandle(part, {create: false}) resolves
HasDirectory(d, handle, part) ==
    \E e \in Entries(d, handle) : e.name = part /\ e.kind = "directory"
\* currentHandle.getFileHandle(fileName, {create: false}) resolves
HasFile(d, handle, fileName) ==
    \E e \in Entries(d, handle) : e.name = fileName /\ e.kind = "file"

\* a call made by a page through the context
PathGesture(name) ==
    /\ nOps < MaxWsOps
    /\ nOps' = nOps + 1
    /\ lastOp' = name
    /\ Len(wsOps) < MaxWsPending
    /\ UNCHANGED << editorVars, graphVars, widgetVars, toasts, pickerSupported,
                    wsRootDirectoryHandle, currentDirectoryHandle, directoryContents,
                    path, wsError, mountPc, mountBefore, route, itemClickResult >>

\* the settling of an await of getFileHandle, getDirectoryHandle or removeEntry
PathStep(name) ==
    /\ nOps' = nOps
    /\ lastOp' = name
    /\ UNCHANGED << editorVars, graphVars, widgetVars, toasts, pickerSupported,
                    wsRootDirectoryHandle, currentDirectoryHandle, directoryContents,
                    path, wsError, mountPc, mountBefore, route, itemClickResult >>

\* getFileHandle as writeFile calls it, with create: true: null without a root or
\* a file name only
FileHandleIsNull_create(d, o) ==
    \/ o.handle = NoHandle
    \/ o.fileName = ""

\* getFileHandle returns null: no root, no file name, a directory part or the file
\* does not resolve
FileHandleIsNull(d, o) ==
    \/ o.handle = NoHandle
    \/ o.fileName = ""
    \/ o.parts # << >> /\ ~HasDirectory(d, o.handle, Head(o.parts))
    \/ o.parts = << >> /\ ~HasFile(d, o.handle, o.fileName)

\* getDirectoryHandle returns null
DirectoryHandleIsNull(d, o) ==
    \/ o.handle = NoHandle
    \/ o.parts # << >> /\ ~HasDirectory(d, o.handle, Head(o.parts))

\* readFile(filePath) up to the first await of getFileHandle
readFile(parts) ==
    /\ PathGesture("readFile")
    /\ wsOps' = Append(wsOps, PathOp("readFile", parts))
    /\ UNCHANGED << disk, thrown >>

\* deleteItemByPath(filePath) up to the first await of getDirectoryHandle
deleteItemByPath(parts) ==
    /\ PathGesture("deleteItemByPath")
    /\ IF FileName(parts) = ""
       THEN thrown' = "Invalid file path for deletion" /\ wsOps' = wsOps
       ELSE thrown' = thrown /\ wsOps' = Append(wsOps, PathOp("deleteItemByPath", parts))
    /\ UNCHANGED disk

\* one directory part resolves: the walk goes one level down
getDirectoryHandleResolved(k) ==
    /\ k \in DOMAIN wsOps
    /\ wsOps[k].op \in { "readFile", "deleteItemByPath" }
    /\ wsOps[k].handle # NoHandle
    /\ wsOps[k].op = "readFile" => wsOps[k].fileName # ""
    /\ wsOps[k].parts # << >>
    /\ HasDirectory(disk, wsOps[k].handle, Head(wsOps[k].parts))
    /\ PathStep("getDirectoryHandleResolved")
    /\ wsOps' = [wsOps EXCEPT ![k] =
                    [handle |-> Append(wsOps[k].handle, Head(wsOps[k].parts)),
                     parts |-> Tail(wsOps[k].parts)] @@ wsOps[k]]
    /\ UNCHANGED << disk, thrown >>

\* getFileHandle found the file: readFile returns its text
readFileResolved(k) ==
    /\ k \in DOMAIN wsOps
    /\ wsOps[k].op = "readFile"
    /\ wsOps[k].parts = << >>
    /\ ~FileHandleIsNull(disk, wsOps[k])
    /\ PathStep("readFileResolved")
    /\ thrown' = null
    /\ wsOps' = RemoveAt(wsOps, k)
    /\ UNCHANGED disk

\* getFileHandle returned null: readFile throws
readFileRejected(k) ==
    /\ k \in DOMAIN wsOps
    /\ wsOps[k].op = "readFile"
    /\ FileHandleIsNull(disk, wsOps[k])
    /\ PathStep("readFileRejected")
    /\ thrown' = "File not found"
    /\ wsOps' = RemoveAt(wsOps, k)
    /\ UNCHANGED disk

\* getDirectoryHandle returned null: deleteItemByPath throws
deleteItemByPathRejected(k) ==
    /\ k \in DOMAIN wsOps
    /\ wsOps[k].op = "deleteItemByPath"
    /\ DirectoryHandleIsNull(disk, wsOps[k])
    /\ PathStep("deleteItemByPathRejected")
    /\ thrown' = "Could not find directory for path: " \o wsOps[k].dirPath
    /\ wsOps' = RemoveAt(wsOps, k)
    /\ UNCHANGED disk

\* the directory was found: removeEntry(fileName, {recursive: true}) settles
removeEntryByPath(k) ==
    /\ k \in DOMAIN wsOps
    /\ wsOps[k].op = "deleteItemByPath"
    /\ wsOps[k].handle # NoHandle
    /\ wsOps[k].parts = << >>
    /\ PathStep("removeEntryByPath")
    /\ IF \E e \in Entries(disk, wsOps[k].handle) : e.name = wsOps[k].fileName
       THEN /\ disk' = DiskWithout(disk, wsOps[k].handle, wsOps[k].fileName)
            /\ thrown' = null
       ELSE /\ disk' = disk
            /\ thrown' = "NotFoundError"
    /\ wsOps' = RemoveAt(wsOps, k)

NextPaths ==
    \/ mount
    \/ \E handle \in Roots : showDirectoryPickerResolved(handle)
    \/ \E k \in 1..MaxWsPending : getDirectoryContentsResolved(k)
    \/ \E parts \in Paths : readFile(parts)
    \/ \E parts \in Paths : deleteItemByPath(parts)
    \/ \E k \in 1..MaxWsPending : getDirectoryHandleResolved(k)
    \/ \E k \in 1..MaxWsPending : readFileResolved(k)
    \/ \E k \in 1..MaxWsPending : readFileRejected(k)
    \/ \E k \in 1..MaxWsPending : deleteItemByPathRejected(k)
    \/ \E k \in 1..MaxWsPending : removeEntryByPath(k)

SpecPaths == InitWorkspace /\ [][NextPaths]_vars

-----------------------------------------------------------------------------
(* Graphing overlay (GraphingCanvas)                                        *)

\* keypad clicks, caret placements and removals of one overlay session
MaxGraphOps == 2
\* formula ids handed out in one session
MaxId == 7
\* setTimeout callbacks that may be waiting at once
MaxTimers == 1

\* the keys of the keypad the session uses
Keys == { "x", "sin", "pi", "=", "backspace" }
FunctionKeys == { "sqrt", "sin", "cos", "tan", "log", "abs" }

\* the characters of a key's label
KeyChars(key) ==
    CASE key = "sin" -> << "s", "i", "n" >>
      [] key = "pi" -> << "p", "i" >>
      [] OTHER -> << key >>

\* String.prototype.trim: the text between its first and last non-blank character
Trim(chars) ==
    LET solid == { i \in DOMAIN chars : chars[i] # " " }
    IN  IF solid = {} THEN << >>
        ELSE SubSeq(chars, CHOOSE i \in solid : \A j \in solid : i <= j,
                           CHOOSE i \in solid : \A j \in solid : i >= j)

\* the expression parser of function-plot accepts the text: parentheses balance
\* and no operator is left without its operand
RECURSIVE ParenDepth(_, _)
ParenDepth(chars, depth) ==
    IF depth < 0 THEN -1
    ELSE IF chars = << >> THEN depth
    ELSE ParenDepth(Tail(chars), CASE Head(chars) = "(" -> depth + 1
                                   [] Head(chars) = ")" -> depth - 1
                                   [] OTHER -> depth)
Parses(chars) ==
    /\ chars # << >>
    /\ ParenDepth(chars, 0) = 0
    /\ chars[1] # "^"
    /\ chars[Len(chars)] # "^"

\* the data drawPlot hands to functionPlot
PlotData(fs) ==
    LET kept == SelectSeq(fs, LAMBDA f : Trim(f.value) # << >>)
    IN  [i \in DOMAIN kept |-> [fn |-> kept[i].value, color |-> kept[i].color]]

\* what one drawPlot() can leave in the plot: every datum when all parse; when
\* one does not, functionPlot throws there and the catch leaves what was drawn
\* before it, or nothing
DrawPlot(fs) ==
    LET data == PlotData(fs)
        bad == { i \in DOMAIN data : ~Parses(data[i].fn) }
        firstBad == CHOOSE i \in bad : \A j \in bad : i <= j
    IN  IF bad = {} THEN { data }
        ELSE { << >>, SubSeq(data, 1, firstBad - 1) }

\* a step of the overlay that the user takes on the formula list
GraphFrame(name) ==
    /\ lastOp' = name
    /\ UNCHANGED << editorVars, workspaceVars, widgetVars, toasts, captureVars >>

\* a counted gesture of the overlay
GraphGesture(name) == nOps < MaxGraphOps /\ nOps' = nOps + 1 /\ GraphFrame(name)

\* handleFormulaChange(id, value)
handleFormulaChange(id, value) ==
    [i \in DOMAIN formulas |->
        IF formulas[i].id = id THEN [value |-> value] @@ formulas[i] ELSE formulas[i]]

\* React writes a changed value into the input, which moves its caret to the end
SelectionAfterRender(fs) ==
    [i \in DOMAIN fs |->
        IF fs[i].value # formulas[i].value
        THEN [start |-> Len(fs[i].value), end |-> Len(fs[i].value)]
        ELSE selection[i]]

\* the 'Add Formula' button
addFormula ==
    /\ nextId <= MaxId
    /\ nOps' = nOps
    /\ GraphFrame("addFormula")
    /\ LET newColor == colors[(Len(formulas) % Len(colors)) + 1]
           newFormula == [id |-> nextId, value |-> << >>, color |-> newColor]
       IN  /\ formulas' = formulas \o << newFormula >>
           /\ activeInputIndex' = Len(formulas)
           /\ nextId' = nextId + 1
    /\ selection' = selection \o << [start |-> 0, end |-> 0] >>
    /\ plotted' \in DrawPlot(formulas')
    /\ UNCHANGED cursorTimers

\* removeFormula without its sole-formula branch
FormulasWithout_filtered(id) == SelectSeq(formulas, LAMBDA f : f.id # id)

\* the list removeFormula(id) stores
FormulasWithout(id) ==
    IF Len(formulas) = 1
    THEN << [id |-> nextId, value |-> << >>, color |-> colors[1]] >>
    ELSE SelectSeq(formulas, LAMBDA f : f.id # id)

\* a row's remove button; it is disabled on a sole blank formula
removeFormula(i) ==
    /\ i \in DOMAIN formulas
    /\ ~(Len(formulas) <= 1 /\ formulas[i].value = << >>)
    /\ GraphGesture("removeFormula")
    /\ formulas' = FormulasWithout(formulas[i].id)
    /\ nextId' = IF Len(formulas) = 1 THEN nextId + 1 ELSE nextId
    /\ activeInputIndex' = Max(0, Len(formulas) - 2)
    /\ selection' = IF Len(formulas) = 1 THEN << [start |-> 0, end |-> 0] >>
                    ELSE RemoveAt(selection, i)
    /\ plotted' \in DrawPlot(formulas')
    /\ UNCHANGED cursorTimers

\* the user clicks into a formula input or drags over part of its text
inputClick(i, start, end) ==
    /\ i \in DOMAIN formulas
    /\ 0 <= start /\ start <= end /\ end <= Len(formulas[i].value)
    /\ GraphGesture("inputClick")
    /\ activeInputIndex' = i - 1
    /\ selection' = [selection EXCEPT ![i] = [start |-> start, end |-> end]]
    /\ UNCHANGED << formulas, nextId, cursorTimers, plotted >>

\* handleKeyboardClick computing start + cursorPosOffset after the parentheses
NewCursorPos_afterParens(key, start) ==
    IF key \in FunctionKeys THEN start + Len(KeyChars(key)) + 2
    ELSE IF key = "backspace" THEN (IF start > 0 THEN start - 1 ELSE start)
    ELSE start + Len(KeyChars(key))

\* start + cursorPosOffset of handleKeyboardClick
NewCursorPos(key, start) ==
    IF key \in FunctionKeys THEN start + Len(KeyChars(key)) + 1
    ELSE IF key = "backspace" THEN (IF start > 0 THEN start - 1 ELSE start)
    ELSE start + Len(KeyChars(key))

\* newValue of handleKeyboardClick; substring(a, b) is SubSeq(chars, a + 1, b)
NewValue(key, currentValue, start, end) ==
    LET before == SubSeq(currentValue, 1, start)
        after == SubSeq(currentValue, end + 1, Len(currentValue))
    IN  IF key \in FunctionKeys THEN before \o KeyChars(key) \o << "(", ")" >> \o after
        ELSE IF key = "backspace"
        THEN (IF start > 0 THEN SubSeq(currentValue, 1, start - 1) \o after
              ELSE currentValue)
        ELSE before \o KeyChars(key) \o after

\* a click on a keypad button
handleKeyboardClick(key) ==
    /\ key \in Keys
    /\ GraphGesture("handleKeyboardClick:" \o key)
    /\ LET i == activeInputIndex + 1
           formulaId == formulas[i].id
           start == selection[i].start
           end == selection[i].end
           currentValue == formulas[i].value
       IN  IF key = "="
           THEN /\ plotted' \in DrawPlot(formulas)
                /\ UNCHANGED << formulas, selection, cursorTimers >>
           ELSE /\ Len(cursorTimers) < MaxTimers
                /\ formulas' = handleFormulaChange(formulaId,
                                                   NewValue(key, currentValue, start, end))
                /\ selection' = SelectionAfterRender(formulas')
                /\ cursorTimers' = Append(cursorTimers,
                                          [id |-> formulaId, pos |-> NewCursorPos(key, start)])
                /\ plotted' \in (IF formulas' = formulas THEN { plotted }
                                 ELSE DrawPlot(formulas'))
    /\ UNCHANGED << nextId, activeInputIndex >>

\* the oldest setTimeout callback runs: input.focus(); input.setSelectionRange(p, p)
cursorTimer ==
    /\ cursorTimers # << >>
    /\ nOps' = nOps
    /\ GraphFrame("cursorTimer")
    /\ cursorTimers' = Tail(cursorTimers)
    /\ LET t == Head(cursorTimers)
       IN  IF \E i \in DOMAIN formulas : formulas[i].id = t.id
           THEN LET i == CHOOSE i \in DOMAIN formulas : formulas[i].id = t.id
                    p == Min(t.pos, Len(formulas[i].value))
                IN  /\ selection' = [selection EXCEPT ![i] = [start |-> p, end |-> p]]
                    /\ activeInputIndex' = i - 1
           ELSE UNCHANGED << selection, activeInputIndex >>
    /\ UNCHANGED << formulas, nextId, plotted >>

\* the window is resized: the effect's listener redraws
handleResize ==
    /\ GraphGesture("handleResize")
    /\ plotted' \in DrawPlot(formulas)
    /\ UNCHANGED << formulas, nextId, activeInputIndex, selection, cursorTimers >>

InitGraph ==
    /\ rootDirectoryHandle = FALSE
    /\ boardFile = MissingFile
    /\ siblings = {}
    /\ PageConstructed
    /\ ProviderConstructed
    /\ GraphConstructed
    /\ WidgetsConstructed
    /\ disk = {} /\ pickerSupported = TRUE

NextGraph ==
    \/ addFormula
    \/ \E i \in DOMAIN formulas : removeFormula(i)
    \/ \E i \in DOMAIN formulas :
         \E start \in 0..Len(formulas[i].value) :
           \E end \in { start, Len(formulas[i].value) } : inputClick(i, start, end)
    \/ \E key \in Keys : handleKeyboardClick(key)
    \/ cursorTimer
    \/ handleResize

SpecGraph == InitGraph /\ [][NextGraph]_vars

-----------------------------------------------------------------------------
(* Graphing overlay with the overlapping formula panel: capture            *)

\* clicks on the capture button and on the panel's toggle in one session
MaxCaptureOps == 4
\* handleCapture calls that may be in flight at once
MaxCaptures == 2

CaptureFrame(name) ==
    /\ lastOp' = name
    /\ UNCHANGED << editorVars, workspaceVars, widgetVars, toasts, formulas, nextId,
                    activeInputIndex, selection, cursorTimers, plotted >>

CaptureGesture(name) ==
    nOps < MaxCaptureOps /\ nOps' = nOps + 1 /\ CaptureFrame(name)

CaptureStep(name) == nOps' = nOps /\ CaptureFrame(name)

\* the toggle in the header of the formula panel (line 352)
toggleFormulaSheet ==
    /\ CaptureGesture("toggleFormulaSheet")
    /\ isFormulaSheetOpen' = ~isFormulaSheetOpen
    /\ UNCHANGED << captureOps, captureLog >>

\* the capture button: handleCapture up to its first await. panelBefore is not
\* a value of the program: it is the state of the panel when the first of the
\* captures now in flight was started
handleCapture ==
    /\ Len(captureOps) < MaxCaptures
    /\ CaptureGesture("handleCapture")
    /\ captureOps' = Append(captureOps,
                            [stage |-> "waiting",
                             originalState |-> isFormulaSheetOpen,
                             panelShown |-> FALSE,
                             panelBefore |-> IF captureOps = << >> THEN isFormulaSheetOpen
                                             ELSE captureOps[1].panelBefore])
    /\ isFormulaSheetOpen' = FALSE
    /\ UNCHANGED captureLog

\* the 50 ms timer of capture k runs and html2canvas reads the page as it is
\* then
captureTimer(k) ==
    /\ k \in DOMAIN captureOps
    /\ captureOps[k].stage = "waiting"
    /\ CaptureStep("captureTimer")
    /\ captureOps' = [captureOps EXCEPT ![k] =
                         [stage |-> "rasterizing", panelShown |-> isFormulaSheetOpen] @@ @]
    /\ UNCHANGED << isFormulaSheetOpen, captureLog >>

\* what handleCapture hands to onCapture: the image, which shows the panel or not
CapturedImage(op) == [panelShown |-> op.panelShown]

\* html2canvas of capture k resolves: the panel is restored and the image handed over
html2canvasResolved(k) ==
    /\ k \in DOMAIN captureOps
    /\ captureOps[k].stage = "rasterizing"
    /\ CaptureStep("html2canvasResolved")
    /\ isFormulaSheetOpen' = captureOps[k].originalState
    /\ captureLog' = Append(captureLog, CapturedImage(captureOps[k]))
    /\ captureOps' = RemoveAt(captureOps, k)

\* html2canvas of capture k rejects: handleCapture ends there
html2canvasRejected(k) ==
    /\ k \in DOMAIN captureOps
    /\ captureOps[k].stage = "rasterizing"
    /\ CaptureStep("html2canvasRejected")
    /\ captureOps' = RemoveAt(captureOps, k)
    /\ UNCHANGED << isFormulaSheetOpen, captureLog >>

NextCapture ==
    \/ toggleFormulaSheet
    \/ handleCapture
    \/ \E k \in 1..MaxCaptures : captureTimer(k)
    \/ \E k \in 1..MaxCaptures : html2canvasResolved(k)
    \/ \E k \in 1..MaxCaptures : html2canvasRejected(k)

SpecCapture == InitGraph /\ [][NextCapture]_vars

-----------------------------------------------------------------------------
(* Editable Text Widget (EditableText) and its owner                        *)

\* presses, moves and keystrokes of one session on the canvas
MaxWidgetOps == 4

\* the canvas rectangle the owner measured, in pixels
canvasBounds == [width |-> 200, height |-> 100]

\* movementX, movementY of the pointermove events of the session
Movements == { << 20, 10 >>, << -160, -40 >>, << 120, 60 >> }

ResizeDirections == { "fontSize", "left", "right" }

\* what a pointer can go down on
NoTarget == [on |-> "none"]
Canvas == [on |-> "canvas"]
Container(id) == [on |-> "container", id |-> id]
Handle(id, direction) == [on |-> "handle", id |-> id, direction |-> direction]

\* containerRef.current.contains(event.target)
Contains(id, target) == target.on \in { "container", "handle" } /\ target.id = id

PointerUp == [phase |-> "up", target |-> NoTarget]

\* an owner callback as the widget calls it
Call(fn, id, value) == [fn |-> fn, id |-> id, value |-> value]

\* the owner keeps what the live updates and onSave report and passes it back down
OwnerApplies(p, calls) ==
    [id \in WidgetIds |->
        LET mine(fn) == { i \in DOMAIN calls : calls[i].id = id /\ calls[i].fn = fn }
            last(fn) == calls[CHOOSE i \in mine(fn) : \A j \in mine(fn) : i >= j].value
        IN  [content |-> IF mine("onSave") # {} THEN last("onSave") ELSE p[id].content,
             position |-> IF mine("onMove") # {} THEN last("onMove") ELSE p[id].position,
             fontSize |-> IF mine("onResize") # {} THEN last("onResize") ELSE p[id].fontSize,
             width |-> IF mine("onWidthChange") # {} THEN last("onWidthChange")
                       ELSE p[id].width]]

\* the three effects that copy changed props into the local state
SyncFromProps(s, old, new) ==
    [pos |-> IF new.position # old.position THEN new.position ELSE s.pos,
     fs |-> IF new.fontSize # old.fontSize THEN new.fontSize ELSE s.fs,
     w |-> IF new.width # old.width
           THEN (IF new.width = NoWidth THEN 200 ELSE new.width) ELSE s.w] @@ s

\* the widgets after their handlers ran and the owner answered the calls
Settle(after, calls) ==
    /\ ownerLog' = ownerLog \o calls
    /\ props' = OwnerApplies(props, calls)
    /\ widgets' = [id \in WidgetIds |-> SyncFromProps(after[id], props[id], props'[id])]

WidgetFrame(name) ==
    /\ lastOp' = name
    /\ UNCHANGED << editorVars, workspaceVars, graphVars, toasts >>

\* a counted gesture on the canvas
WidgetGesture(name) == nOps < MaxWidgetOps /\ nOps' = nOps + 1 /\ WidgetFrame(name)

\* an event that follows from a gesture already made
WidgetStep(name) == nOps' = nOps /\ WidgetFrame(name)

\* the effect of lines 197-210 has the window listeners attached
Listening(s) == s.isActive \/ s.isResizing # null

\* the pointer goes down on a widget's container
handlePointerDown(id) ==
    /\ pointer.phase = "up" /\ mousePending = NoTarget
    /\ WidgetGesture("handlePointerDown")
    /\ LET s == widgets[id]
       IN  Settle([widgets EXCEPT ![id] =
                      IF s.isEditing THEN s
                      ELSE [isActive |-> TRUE, longPressTimer |-> TRUE] @@ s],
                  << >>)
    /\ pointer' = [phase |-> "down", target |-> Container(id)]
    /\ mousePending' = Container(id)

\* the pointer goes down on one of the handles, shown while the widget is active
handleResizePointerDown(id, direction) ==
    /\ pointer.phase = "up" /\ mousePending = NoTarget
    /\ widgets[id].isActive
    /\ direction \in ResizeDirections
    /\ WidgetGesture("handleResizePointerDown")
    /\ Settle([widgets EXCEPT ![id] = [isResizing |-> direction] @@ widgets[id]], << >>)
    /\ pointer' = [phase |-> "down", target |-> Handle(id, direction)]
    /\ mousePending' = Handle(id, direction)

\* the pointer goes down on the canvas, outside every widget
canvasPointerDown ==
    /\ pointer.phase = "up" /\ mousePending = NoTarget
    /\ WidgetGesture("canvasPointerDown")
    /\ pointer' = [phase |-> "down", target |-> Canvas]
    /\ mousePending' = Canvas
    /\ UNCHANGED << widgets, props, ownerLog >>

\* handleBlur of one widget
handleBlur(s) ==
    IF s.isEditing THEN [isEditing |-> FALSE, isActive |-> FALSE] @@ s ELSE s

\* the onSave call handleBlur makes for a widget with state s and content prop
BlurCalls(id, s, content) ==
    IF s.isEditing /\ Trim(s.text) # content
    THEN << Call("onSave", id, s.text) >> ELSE << >>

\* the textarea of the widget loses the focus when the press lands elsewhere
Blurs(id, target) == target # Container(id)

\* the mousedown of a press: every widget's handleClickOutside, then the focused
\* textarea loses focus and its handleBlur runs
mouseDown ==
    /\ mousePending # NoTarget
    /\ WidgetStep("mouseDown")
    /\ LET outside(id) ==
               IF /\ ~Contains(id, mousePending)
                  /\ widgets[id].isActive /\ ~widgets[id].isEditing
               THEN [isActive |-> FALSE] @@ widgets[id]
               ELSE widgets[id]
           blurred(id) == IF Blurs(id, mousePending) THEN handleBlur(outside(id))
                          ELSE outside(id)
           calls(id) == IF Blurs(id, mousePending)
                        THEN BlurCalls(id, widgets[id], props[id].content)
                        ELSE << >>
       IN  Settle([id \in WidgetIds |-> blurred(id)], calls("t1") \o calls("t2"))
    /\ mousePending' = NoTarget
    /\ UNCHANGED pointer

\* the 300 ms timer of handlePointerDown runs
longPressTimer(id) ==
    /\ widgets[id].longPressTimer
    /\ WidgetStep("longPressTimer")
    /\ Settle([widgets EXCEPT ![id] =
                  [isDragging |-> TRUE, longPressTimer |-> FALSE] @@ widgets[id]], << >>)
    /\ UNCHANGED << pointer, mousePending >>

\* handlePointerMove committing the local state without telling the owner
MoveCalls_silent(id, s, mx, my) == << >>

\* handlePointerMove reporting the values without their floors and bounds
MoveCalls_unclamped(id, s, mx, my) ==
    IF ~Listening(s) THEN << >>
    ELSE (IF s.isDragging
          THEN << Call("onMove", id,
                       << s.pos[1] + (mx * 100) \div canvasBounds.width,
                          s.pos[2] + (my * 100) \div canvasBounds.height >>) >>
          ELSE << >>)
         \o
         (IF s.isResizing = "fontSize"
          THEN << Call("onResize", id, s.fs + (mx + my) \div 2) >>
          ELSE IF s.isResizing = "left"
          THEN << Call("onWidthChange", id, s.w - mx) >>
          ELSE IF s.isResizing = "right"
          THEN << Call("onWidthChange", id, s.w + mx) >>
          ELSE << >>)

\* the owner callbacks one handlePointerMove of a listening widget makes
MoveCalls(id, s, mx, my) ==
    IF ~Listening(s) THEN << >>
    ELSE (IF s.isDragging
          THEN << Call("onMove", id,
                       << Max(0, Min(100, s.pos[1] + (mx * 100) \div canvasBounds.width)),
                          Max(0, Min(100, s.pos[2] + (my * 100) \div canvasBounds.height)) >>) >>
          ELSE << >>)
         \o
         (IF s.isResizing = "fontSize"
          THEN << Call("onResize", id, Max(8, s.fs + (mx + my) \div 2)) >>
          ELSE IF s.isResizing = "left"
          THEN << Call("onWidthChange", id, Max(50, s.w - mx)) >>
          ELSE IF s.isResizing = "right"
          THEN << Call("onWidthChange", id, Max(50, s.w + mx)) >>
          ELSE << >>)

\* handlePointerMove leaving the timer of handlePointerDown running
Moved_timerKept(id, s, mx, my) ==
    IF ~Listening(s) THEN s
    ELSE [pos |-> IF s.isDragging
                  THEN << Max(0, Min(100, s.pos[1] + (mx * 100) \div canvasBounds.width)),
                          Max(0, Min(100, s.pos[2] + (my * 100) \div canvasBounds.height)) >>
                  ELSE s.pos,
          fs |-> IF s.isResizing = "fontSize" THEN Max(8, s.fs + (mx + my) \div 2)
                 ELSE s.fs,
          w |-> IF s.isResizing = "left" THEN Max(50, s.w - mx)
                ELSE IF s.isResizing = "right" THEN Max(50, s.w + mx)
                ELSE s.w] @@ s

\* the local state one handlePointerMove of a widget leaves
Moved(id, s, mx, my) ==
    IF ~Listening(s) THEN s
    ELSE [longPressTimer |-> FALSE,
          pos |-> IF s.isDragging
                  THEN << Max(0, Min(100, s.pos[1] + (mx * 100) \div canvasBounds.width)),
                          Max(0, Min(100, s.pos[2] + (my * 100) \div canvasBounds.height)) >>
                  ELSE s.pos,
          fs |-> IF s.isResizing = "fontSize" THEN Max(8, s.fs + (mx + my) \div 2)
                 ELSE s.fs,
          w |-> IF s.isResizing = "left" THEN Max(50, s.w - mx)
                ELSE IF s.isResizing = "right" THEN Max(50, s.w + mx)
                ELSE s.w] @@ s

\* the pressed pointer moves: the window listener of every listening widget runs;
\* a press that moves before its mousedown is a touch, which sends none
handlePointerMove(mx, my) ==
    /\ pointer.phase = "down"
    /\ << mx, my >> \in Movements
    /\ WidgetGesture("handlePointerMove")
    /\ Settle([id \in WidgetIds |-> Moved(id, widgets[id], mx, my)],
              MoveCalls("t1", widgets["t1"], mx, my)
                  \o MoveCalls("t2", widgets["t2"], mx, my))
    /\ mousePending' = NoTarget
    /\ UNCHANGED pointer

\* the owner callbacks one handleGlobalPointerUp of a listening widget makes
UpCalls(id, s) ==
    IF Listening(s) /\ (s.isDragging \/ s.isResizing # null)
    THEN << Call("onPointerUp", id, [position |-> s.pos, fontSize |-> s.fs, width |-> s.w]) >>
    ELSE << >>

\* the pointer is released: handleGlobalPointerUp of every listening widget; a
\* click may follow on what was pressed, and without one (a touch that was held)
\* no mousedown is sent either
handleGlobalPointerUp(click) ==
    /\ pointer.phase = "down"
    /\ WidgetStep("handleGlobalPointerUp")
    /\ Settle([id \in WidgetIds |->
                  IF Listening(widgets[id])
                  THEN [longPressTimer |-> FALSE, isDragging |-> FALSE,
                        isResizing |-> null] @@ widgets[id]
                  ELSE widgets[id]],
              UpCalls("t1", widgets["t1"]) \o UpCalls("t2", widgets["t2"]))
    /\ pointer' = IF click /\ pointer.target # Canvas
                  THEN [phase |-> "click", target |-> pointer.target]
                  ELSE PointerUp
    /\ mousePending' = IF click THEN mousePending ELSE NoTarget

\* the click after a release on a widget: the container's onClick
containerClick ==
    /\ pointer.phase = "click"
    /\ mousePending = NoTarget
    /\ WidgetStep("containerClick")
    /\ Settle([widgets EXCEPT ![pointer.target.id] = [isActive |-> TRUE] @@ @], << >>)
    /\ pointer' = PointerUp
    /\ UNCHANGED mousePending

\* the click completes a double click on the container
handleDoubleClick ==
    /\ pointer.phase = "click"
    /\ pointer.target.on = "container"
    /\ mousePending = NoTarget
    /\ WidgetStep("handleDoubleClick")
    /\ Settle([widgets EXCEPT ![pointer.target.id] =
                  [isActive |-> TRUE, isEditing |-> TRUE] @@ @], << >>)
    /\ pointer' = PointerUp
    /\ UNCHANGED mousePending

\* what the user leaves in the textarea after typing
TypedTexts == { << "y", "o" >>, << "h", "i", " " >> }

\* the user types into the textarea of a widget being edited
textareaChange(id, value) ==
    /\ widgets[id].isEditing
    /\ pointer.phase = "up"
    /\ WidgetGesture("textareaChange")
    /\ Settle([widgets EXCEPT ![id] = [text |-> value] @@ @], << >>)
    /\ UNCHANGED << pointer, mousePending >>

\* Escape in the textarea
handleKeyDown(id) ==
    /\ widgets[id].isEditing
    /\ pointer.phase = "up"
    /\ WidgetGesture("handleKeyDown")
    /\ Settle([widgets EXCEPT ![id] =
                  [text |-> props[id].content, isEditing |-> FALSE,
                   isActive |-> FALSE] @@ @], << >>)
    /\ UNCHANGED << pointer, mousePending >>

InitWidget ==
    /\ rootDirectoryHandle = FALSE
    /\ boardFile = MissingFile
    /\ siblings = {}
    /\ PageConstructed
    /\ ProviderConstructed
    /\ GraphConstructed
    /\ WidgetsConstructed
    /\ disk = {} /\ pickerSupported = TRUE

NextWidget ==
    \/ \E id \in WidgetIds : handlePointerDown(id)
    \/ \E id \in WidgetIds : \E direction \in ResizeDirections :
           handleResizePointerDown(id, direction)
    \/ canvasPointerDown
    \/ mouseDown
    \/ \E id \in WidgetIds : longPressTimer(id)
    \/ \E m \in Movements : handlePointerMove(m[1], m[2])
    \/ \E click \in BOOLEAN : handleGlobalPointerUp(click)
    \/ containerClick
    \/ handleDoubleClick
    \/ \E id \in WidgetIds : \E value \in TypedTexts : textareaChange(id, value)
    \/ \E id \in WidgetIds : handleKeyDown(id)

SpecWidget == InitWidget /\ [][NextWidget]_vars

-----------------------------------------------------------------------------
(* Claims                                                                  *)

Clamp(lo, hi, v) == Max(lo, Min(hi, v))

\* a slide without its number: what handleAddSlide and handleDeleteSlide must keep
SlideBody(slide) == [k \in DOMAIN slide \ {"slide_number"} |-> slide[k]]

\* the slides carry slide_number 1..N in document order
NumberedInOrder(slides) == \A k \in DOMAIN slides : slides[k].slide_number = k

\* C1: a move nudge of the selected item changes the position by exactly 2 points on
\* each affected axis and clamps each axis into [0,100], so a nudged item never leaves
\* [0,100] x [0,100] (an item at [0,0] nudged up-left stays at [0,0]).
C1_NudgeClampsPosition ==
    [][ (lastOp' = "handleMoveItem" /\ HasCurrentItem) =>
            \E direction \in Directions :
                /\ CurrentItem'.position[1] =
                       Clamp(0, 100, CurrentItem.position[1] + DeltaX(direction))
                /\ CurrentItem'.position[2] =
                       Clamp(0, 100, CurrentItem.position[2] + DeltaY(direction)) ]_vars

\* C2: handleDeleteSlide with a current slide and N > 1 slides removes exactly the
\* current slide, keeps the other slides in their order, numbers them 1..N-1 and makes
\* max(0, currentSlideIndex - 1) current; with N = 1 it changes neither the document
\* nor the current slide index.
C2_DeleteSlide ==
    [][ (lastOp' = "handleDeleteSlide" /\ HasCurrentSlide) =>
            IF Len(boardData.slides) > 1
            THEN /\ Len(boardData'.slides) = Len(boardData.slides) - 1
                 /\ \A k \in DOMAIN boardData'.slides :
                        SlideBody(boardData'.slides[k]) =
                            SlideBody(boardData.slides[IF k <= currentSlideIndex
                                                       THEN k ELSE k + 1])
                 /\ NumberedInOrder(boardData'.slides)
                 /\ currentSlideIndex' = Max(0, currentSlideIndex - 1)
            ELSE /\ boardData' = boardData
                 /\ currentSlideIndex' = currentSlideIndex ]_vars

\* C2 witness: the middle slide of a three-slide board has been deleted
C2_Witness ==
    /\ lastOp = "handleDeleteSlide"
    /\ SlideCount = 2
    /\ currentSlideIndex = 0
    /\ Len(boardData.slides[1].items) = 2
    /\ Len(boardData.slides[2].items) = 1
    /\ boardData.slides[2].slide_number = 2

\* C3: handleAddSlide with current slide i of N inserts one empty slide at index i + 1,
\* keeps every existing slide's items and relative order, numbers the slides 1..N+1 and
\* makes the inserted slide current.
C3_AddSlide ==
    [][ (lastOp' = "handleAddSlide" /\ HasCurrentSlide) =>
            /\ Len(boardData'.slides) = Len(boardData.slides) + 1
            /\ boardData'.slides[currentSlideIndex + 2].items = << >>
            /\ \A k \in DOMAIN boardData.slides :
                    SlideBody(boardData'.slides[IF k <= currentSlideIndex + 1
                                                THEN k ELSE k + 1]) =
                        SlideBody(boardData.slides[k])
            /\ NumberedInOrder(boardData'.slides)
            /\ currentSlideIndex' = currentSlideIndex + 1 ]_vars

\* C3 witness: a slide has been added after the first of three slides
C3_Witness ==
    /\ lastOp = "handleAddSlide"
    /\ SlideCount = 4
    /\ currentSlideIndex = 1
    /\ Len(boardData.slides[1].items) = 2
    /\ boardData.slides[2].items = << >>
    /\ Len(boardData.slides[4].items) = 1
    /\ boardData.slides[4].slide_number = 4

\* the last title handed to toast(), null when none was
LastToast == IF toasts = << >> THEN null ELSE toasts[Len(toasts)]

\* the write saveBoard has just dispatched
NewestWrite == saveWrites[Len(saveWrites)]

\* C4: a rejected save write leaves boardData alone and opens the Save Failed
\* dialog; Retry writes to the same path content identical to the rejected attempt; a
\* resolved write closes the dialog and shows 'Board Saved'.
C4_RetryRepeatsContent ==
    [][ /\ lastOp' = "saveWriteFail" => (boardData' = boardData /\ showSaveErrorAlert')
        /\ lastOp' = "saveRetry" =>
              /\ Len(saveWrites') = Len(saveWrites) + 1
              /\ NewestWrite'.path = failedSave.path
              /\ NewestWrite'.content = failedSave.content
        /\ lastOp' = "saveWriteOk" =>
              (~showSaveErrorAlert' /\ LastToast' = "Board Saved" /\ boardData' = boardData)
      ]_vars

\* o.k as JavaScript reads it: an absent string property reads undefined
SameProperty(a, b, k) ==
    IF k \in StringKeys THEN StrGet(a, k) = StrGet(b, k)
    ELSE k \in DOMAIN a /\ k \in DOMAIN b /\ a[k] = b[k]

\* the fields an item must keep through a save
KeptKeys(item) ==
    {"id", "type", "position", "rotation"} \cup
    (IF item.type = "image" THEN {"filename", "width", "height", "scale"}
     ELSE {"content", "font_size", "width"})

\* `parsed` holds every item of `data` with its fields, and no src
RoundTrips(data, parsed) ==
    /\ DOMAIN parsed.slides = DOMAIN data.slides
    /\ \A s \in DOMAIN data.slides :
        /\ DOMAIN parsed.slides[s].items = DOMAIN data.slides[s].items
        /\ \A i \in DOMAIN data.slides[s].items :
            /\ \A k \in KeptKeys(data.slides[s].items[i]) :
                   SameProperty(parsed.slides[s].items[i], data.slides[s].items[i], k)
            /\ "src" \notin DOMAIN parsed.slides[s].items[i]

\* C5: parsing what saveBoard writes for a load-normalised document yields every item
\* with its id, type, position, rotation and type-specific fields, and no image item
\* with a src.
C5_RoundTrip ==
    \A w \in DOMAIN saveWrites :
        RoundTrips(saveWrites[w].data, JSONparse(saveWrites[w].content))

\* C5 witness: a save of a board with a hydrated image item and a text item is in flight
C5_Witness ==
    /\ saveWrites # << >>
    /\ \E s \in DOMAIN NewestWrite.data.slides :
         \E i, j \in DOMAIN NewestWrite.data.slides[s].items :
            /\ NewestWrite.data.slides[s].items[i].type = "image"
            /\ NewestWrite.data.slides[s].items[i].src = "blob:a.png"
            /\ NewestWrite.data.slides[s].items[j].type = "text"
            /\ NewestWrite.data.slides[s].items[j].content = undefined

\* all items of a board, as (slide, index) pairs
ItemPlaces(data) ==
    {<<s, i>> \in (DOMAIN data.slides) \X (1..(MaxRawItems + MaxOps + 1)) :
        i \in DOMAIN data.slides[s].items}

\* the slide of the file is in the legacy shape
IsLegacySlide(slide) == "items" \notin DOMAIN slide

\* every legacy text is a text item and every legacy image an image item of `items`
LegacyUpgraded(slide, items) ==
    /\ Len(items) = Len(ArrOr(slide, "texts", << >>)) + Len(ArrOr(slide, "images", << >>))
    /\ \A t \in DOMAIN ArrOr(slide, "texts", << >>) :
         \E i \in DOMAIN items :
            /\ items[i].type = "text"
            /\ items[i].content = StrGet(slide.texts[t], "content")
            /\ items[i].font_size = NumOr(slide.texts[t], "font_size", 24)
            /\ items[i].width = NumOr(slide.texts[t], "width", 200)
            /\ items[i].rotation = NumOr(slide.texts[t], "rotation", 0)
            /\ items[i].position = ArrOr(slide.texts[t], "position", <<50, 50>>)
    /\ \A g \in DOMAIN ArrOr(slide, "images", << >>) :
         \E i \in DOMAIN items :
            /\ items[i].type = "image"
            /\ items[i].filename = slide.images[g].filename
            /\ items[i].scale = NumOr(slide.images[g], "scale", 100)
            /\ items[i].rotation = NumOr(slide.images[g], "rotation", 0)
            /\ items[i].position = ArrOr(slide.images[g], "position", <<50, 50>>)

\* C6: loading a legacy document (texts and images arrays) yields items that hold every
\* legacy text as a text item and every legacy image as an image item, each with an id
\* unique in the document and with the missing fields defaulted.
C6_LegacyUpgrade ==
    (lastOp = "loadBoardFinish" /\ boardData # NullBoard) =>
        /\ \A s \in DOMAIN boardFile.doc.slides :
              IsLegacySlide(boardFile.doc.slides[s]) =>
                  LegacyUpgraded(boardFile.doc.slides[s], boardData.slides[s].items)
        /\ (\A s \in DOMAIN boardFile.doc.slides : IsLegacySlide(boardFile.doc.slides[s])) =>
              \A p, q \in ItemPlaces(boardData) :
                  p # q => boardData.slides[p[1]].items[p[2]].id #
                           boardData.slides[q[1]].items[q[2]].id

\* C7: a decrease nudge from a value at or above its floor lands on max(floor, value -
\* step): never below the floor, never above the value, and strictly lower while the
\* value is above the floor (text width floor 50, text font size floor 8, image scale
\* floor 0.1).
C7_DecreaseStopsAtFloor ==
    [][ /\ ( /\ lastOp' = "handleWidthChange-decrease"
             /\ HasCurrentItem
             /\ CurrentItem.type = "text"
             /\ CurrentItem.width >= MinWidth ) =>
                /\ CurrentItem'.width >= MinWidth
                /\ CurrentItem'.width <= CurrentItem.width
                /\ CurrentItem.width > MinWidth => CurrentItem'.width < CurrentItem.width
        /\ ( /\ lastOp' = "handleScaleItem-down"
             /\ HasCurrentItem
             /\ CurrentItem.type = "text"
             /\ CurrentItem.font_size >= MinFontSize ) =>
                /\ CurrentItem'.font_size >= MinFontSize
                /\ CurrentItem'.font_size <= CurrentItem.font_size
                /\ CurrentItem.font_size > MinFontSize =>
                       CurrentItem'.font_size < CurrentItem.font_size
        /\ ( /\ lastOp' = "handleScaleItem-down"
             /\ HasCurrentItem
             /\ CurrentItem.type = "image"
             /\ CurrentItem.scale >= MinScale ) =>
                /\ CurrentItem'.scale >= MinScale
                /\ CurrentItem'.scale <= CurrentItem.scale
                /\ CurrentItem.scale > MinScale => CurrentItem'.scale < CurrentItem.scale
      ]_vars

\* C7 witness: after repeated decreases a text item rests on the font-size floor
C7_Witness ==
    /\ lastOp = "handleScaleItem-down"
    /\ nOps >= 3
    /\ HasCurrentItem
    /\ CurrentItem.type = "text"
    /\ CurrentItem.font_size = MinFontSize
    /\ CurrentItem.width = MinWidth

\* C8: when the image-insert pipeline fails, the failure toast is shown, no item is
\* appended, and the crop dialog stays open with its source image; the dialog closes
\* and the crop state is cleared only on success.
C8_FailureKeepsDialogOpen ==
    [][ lastOp' \in {"insertProcessedFail", "insertWriteFail"} =>
            /\ LastToast' = "Image processing failed"
            /\ boardData' = boardData
            /\ isCropping' = isCropping
            /\ sourceImage' = sourceImage ]_vars

\* C9: when the document itself loads, the load completes with no error and with every
\* entry of each items array present; exactly the image items whose file could not be
\* read carry the Not Found placeholder, every other one a reference to its own file.
\* (What becomes of a legacy images array is the subject of C6.)
C9_UnreadableImageGetsPlaceholder ==
    (lastOp = "loadBoardFinish" /\ ~LoadThrows) =>
        /\ boardData # NullBoard
        /\ error = null
        /\ DOMAIN boardData.slides = DOMAIN boardFile.doc.slides
        /\ \A s \in DOMAIN boardFile.doc.slides :
            /\ "items" \in DOMAIN boardFile.doc.slides[s] =>
                /\ Len(boardData.slides[s].items) = Len(boardFile.doc.slides[s].items)
                /\ \A i \in DOMAIN boardData.slides[s].items :
                     boardData.slides[s].items[i].type = "image" =>
                        boardData.slides[s].items[i].filename =
                            boardFile.doc.slides[s].items[i].filename
            /\ \A i \in DOMAIN boardData.slides[s].items :
                 boardData.slides[s].items[i].type = "image" =>
                    boardData.slides[s].items[i].src =
                        IF boardData.slides[s].items[i].filename \in siblings
                        THEN "blob:" \o boardData.slides[s].items[i].filename
                        ELSE NotFoundPlaceholder

\* C9 witness: a load has left one image with the placeholder and one with its file
C9_Witness ==
    /\ lastOp = "loadBoardFinish"
    /\ boardData # NullBoard
    /\ \E i, j \in DOMAIN boardData.slides[1].items :
        /\ boardData.slides[1].items[i].type = "image"
        /\ boardData.slides[1].items[i].src = NotFoundPlaceholder
        /\ boardData.slides[1].items[j].type = "image"
        /\ boardData.slides[1].items[j].src = "blob:a.png"

\* C10: a board file that cannot be read or parsed leaves the editor with the message
\* 'Failed to load board data.' and no document; a load error and a document are never
\* both present.
C10_LoadErrorExcludesDocument ==
    /\ (loadPc = "done" /\ rootDirectoryHandle /\ LoadThrows) =>
            (error = LoadErrorMessage /\ boardData = NullBoard)
    /\ error # null => (error = LoadErrorMessage /\ boardData = NullBoard)

\* C10 witness: the load of a file that is not JSON has ended in the error state
C10_Witness ==
    /\ lastOp = "loadBoardFinish"
    /\ boardFile = GarbageFile
    /\ error = LoadErrorMessage
    /\ boardData = NullBoard

Names(listing) == [i \in DOMAIN listing |-> listing[i].name]

\* listing holds exactly the directories and .board files among entries,
\* directories first, each kind in locale order
ListsDirectory(listing, entries) ==
    LET kept == { e \in entries : \/ e.kind = "directory"
                                  \/ endsWith(Chars(e.name), Chars(".board")) }
    IN  /\ Len(listing) = Cardinality(kept)
        /\ { <<listing[i].name, listing[i].kind>> : i \in DOMAIN listing }
             = { <<e.name, e.kind>> : e \in kept }
        /\ \A i, j \in DOMAIN listing :
               i < j => /\ ~(listing[i].kind = "file" /\ listing[j].kind = "directory")
                        /\ listing[i].kind = listing[j].kind
                             => localeCompare(listing[i].name, listing[j].name) < 0

\* C11: when an enumeration completes, the listing it stores holds exactly the
\* directories and the files named *.board of the enumerated directory, every
\* directory before every file and each kind in locale-compare order.
C11_ListingFilteredAndSorted ==
    [][lastOp' = "getDirectoryContentsResolved" =>
        \E k \in DOMAIN wsOps :
            /\ wsOps[k].op = "list"
            /\ wsOps' = RemoveAt(wsOps, k)
            /\ ListsDirectory(directoryContents', Entries(disk, wsOps[k].handle))]_vars

\* the folder holding b.board, A (a directory), a.board and notes.txt was enumerated
C11_Witness ==
    /\ lastOp = "getDirectoryContentsResolved"
    /\ currentDirectoryHandle = <<"ws">>
    /\ wsOps = << >>
    /\ Entries(disk, <<"ws">>) = Entries(InitialDisk, <<"ws">>)
    /\ Names(directoryContents) = << "A", "a.board", "b.board" >>

\* C12: when the user cancels the picker (and no enumeration was under way when
\* mount() was called), no error is set and the root handle, the current handle,
\* the path and the listing are what they were before the call.
C12_CancelledMountIsNoOp ==
    (lastOp = "showDirectoryPickerAborted" /\ mountBefore.ops = << >>) =>
        /\ wsError = null
        /\ wsRootDirectoryHandle = mountBefore.root
        /\ currentDirectoryHandle = mountBefore.current
        /\ path = mountBefore.path
        /\ directoryContents = mountBefore.listing

\* C13: when the picker resolves with a directory, whatever was mounted before,
\* root and current handle become that directory, the path becomes its single
\* segment and an enumeration of it is started; and when the enumeration of the
\* mounted root completes, the listing holds that directory's contents.
C13_MountReplacesWorkspace ==
    [][/\ lastOp' = "showDirectoryPickerResolved" =>
            \E chosen \in Roots :
                /\ wsRootDirectoryHandle' = chosen
                /\ currentDirectoryHandle' = chosen
                /\ path' = << [name |-> chosen[Len(chosen)], handle |-> chosen] >>
                /\ wsOps' = Append(wsOps, ListOp(chosen, null))
       /\ \A k \in DOMAIN wsOps :
            (/\ lastOp' = "getDirectoryContentsResolved"
             /\ wsOps' = RemoveAt(wsOps, k)
             /\ wsOps[k].handle = wsRootDirectoryHandle)
            => ListsDirectory(directoryContents', Entries(disk, wsRootDirectoryHandle'))
      ]_vars

\* a second folder was mounted while the first was navigated into, and listed
C13_Witness ==
    /\ lastOp = "getDirectoryContentsResolved"
    /\ mountBefore.called
    /\ mountBefore.root = <<"ws">>
    /\ Len(mountBefore.path) = 2
    /\ wsRootDirectoryHandle = <<"other">>
    /\ currentDirectoryHandle = <<"other">>
    /\ path = << [name |-> "other", handle |-> <<"other">>] >>
    /\ Names(directoryContents) = << "x.board" >>

\* C14: a click on a file row makes handleItemClick return the string made of the
\* names of the path segments after the root and the file name, joined by '/',
\* with path, current handle and listing unchanged; a click on a directory row
\* appends that directory's segment, makes it current and starts its listing.
C14_ItemClick ==
    [][/\ lastOp' = "handleItemClick:file" =>
            \E i \in DOMAIN directoryContents :
                /\ directoryContents[i].kind = "file"
                /\ itemClickResult' =
                       JSString(Join([j \in 1..(Len(path) - 1) |-> path[j + 1].name]
                                         \o << directoryContents[i].name >>, "/"))
                /\ UNCHANGED << path, currentDirectoryHandle, directoryContents >>
       /\ lastOp' = "handleItemClick:directory" =>
            \E i \in DOMAIN directoryContents :
                /\ directoryContents[i].kind = "directory"
                /\ path' = Append(path, [name |-> directoryContents[i].name,
                                         handle |-> directoryContents[i].handle])
                /\ currentDirectoryHandle' = directoryContents[i].handle
                /\ wsOps' = Append(wsOps, ListOp(directoryContents[i].handle, null))
      ]_vars

\* C15: the row's Delete shows its 'Deleted' notification only for an entry that
\* was removed from storage, and when removeEntry fails it reports the failure
\* and shows no success notification.
C15_DeleteReportsOutcome ==
    [][/\ lastOp' = "removeEntryRejected" => (toasts' = toasts /\ wsError' # null)
       /\ \A k \in DOMAIN wsOps :
            (/\ wsOps' = RemoveAt(wsOps, k)
             /\ toasts' = Append(toasts, wsOps[k].toast)
             /\ wsOps[k].op = "list")
            => ~\E e \in Entries(disk', wsOps[k].handle) : e.name = wsOps[k].item.name
      ]_vars

\* C16: the formula list is never empty; addFormula appends one blank formula
\* whose color is the palette entry at (length before the add) mod 6; removing
\* the sole formula leaves exactly one blank formula.
C16_FormulaListNeverEmpty ==
    [][/\ Len(formulas') >= 1
       /\ lastOp' = "addFormula" =>
            /\ Len(formulas') = Len(formulas) + 1
            /\ SubSeq(formulas', 1, Len(formulas)) = formulas
            /\ formulas'[Len(formulas')].value = << >>
            /\ formulas'[Len(formulas')].color = colors[(Len(formulas) % 6) + 1]
       /\ (lastOp' = "removeFormula" /\ Len(formulas) = 1) =>
            /\ Len(formulas') = 1
            /\ formulas'[1].value = << >>
      ]_vars

\* six formulas were added to x^2: the second has palette entry 1 and the
\* seventh wraps to palette entry 0
C16_Witness ==
    /\ lastOp = "addFormula"
    /\ Len(formulas) = 7
    /\ formulas[1].value = << "x", "^", "2" >>
    /\ formulas[2].color = "#dc3912"
    /\ formulas[7].color = "#3366cc"

Spliced(value, p, text) == SubSeq(value, 1, p) \o text \o SubSeq(value, p + 1, Len(value))

\* the active formula's new text and scheduled cursor, after a key at cursor p
KeyGave(key, value, cursor) ==
    LET i == activeInputIndex + 1
        last == cursorTimers'[Len(cursorTimers')]
    IN  /\ formulas' = [formulas EXCEPT ![i].value = value]
        /\ cursorTimers' = Append(cursorTimers, last)
        /\ last.id = formulas[i].id
        /\ last.pos = cursor

\* C17: a keypad click with the cursor at p in the active formula: a function key
\* inserts name() at p and schedules the cursor at p + len(name) + 1; any other
\* key inserts its text at p and schedules the cursor after it; backspace removes
\* the one character left of p, and nothing at p = 0; '=' changes no text. The
\* scheduled cursor is where the input's cursor is once the timer has run.
C17_KeypadInput ==
    [][LET i == activeInputIndex + 1
           p == selection[i].start
           value == formulas[i].value
       IN  /\ \A key \in Keys :
                (lastOp' = "handleKeyboardClick:" \o key /\ selection[i].end = p) =>
                    CASE key \in { "sqrt", "sin", "cos", "tan", "log", "abs" } ->
                            KeyGave(key, Spliced(value, p, KeyChars(key) \o << "(", ")" >>),
                                    p + Len(KeyChars(key)) + 1)
                      [] key = "=" -> formulas' = formulas
                      [] key = "backspace" ->
                            IF p = 0 THEN formulas' = formulas
                            ELSE formulas' = [formulas EXCEPT ![i].value =
                                     SubSeq(value, 1, p - 1) \o SubSeq(value, p + 1, Len(value))]
                      [] OTHER ->
                            KeyGave(key, Spliced(value, p, KeyChars(key)),
                                    p + Len(KeyChars(key)))
           /\ (/\ lastOp' = "cursorTimer"
               /\ lastOp \in { "handleKeyboardClick:" \o key : key \in Keys \ { "=" } }
               /\ Len(cursorTimers) = 1) =>
                    /\ cursorTimers[1].id = formulas[i].id
                    /\ selection'[i] = [start |-> cursorTimers[1].pos,
                                        end |-> cursorTimers[1].pos]
      ]_vars

\* sin was clicked on an empty second formula: it reads sin() with the cursor at 4
C17_Witness ==
    /\ lastOp = "cursorTimer"
    /\ Len(formulas) = 2
    /\ activeInputIndex = 1
    /\ formulas[2].value = << "s", "i", "n", "(", ")" >>
    /\ selection[2] = [start |-> 4, end |-> 4]

\* C18: after every redraw the plot holds exactly the formulas that are not blank
\* and are well-formed, whatever else is in the list.
C18_RedrawPlotsEveryWellFormed ==
    LET good == SelectSeq(formulas, LAMBDA f : Trim(f.value) # << >> /\ Parses(f.value))
    IN  plotted = [i \in DOMAIN good |-> [fn |-> good[i].value, color |-> good[i].color]]

\* C19: in every state each widget has at most one of editing, dragging and
\* resizing active, and at most one widget is selected (active).
C19_OneModeOneSelection ==
    /\ \A id \in WidgetIds :
          /\ ~(widgets[id].isEditing /\ widgets[id].isResizing # null)
          /\ ~(widgets[id].isDragging /\ widgets[id].isResizing # null)
          /\ ~(widgets[id].isDragging /\ widgets[id].isEditing)
    /\ \A a, b \in WidgetIds : (widgets[a].isActive /\ widgets[b].isActive) => a = b

InGesture(s) == s.isDragging \/ s.isResizing # null

\* the calls a step added to the owner's log
NewCalls == SubSeq(ownerLog', Len(ownerLog) + 1, Len(ownerLog'))

\* the value of the last call of fn for id in log, or otherwise
LastValue(log, fn, id, otherwise) ==
    LET mine == { i \in DOMAIN log : log[i].fn = fn /\ log[i].id = id }
    IN  IF mine = {} THEN otherwise
        ELSE log[CHOOSE i \in mine : \A j \in mine : i >= j].value

Saved(id) == \E i \in DOMAIN NewCalls : NewCalls[i].fn = "onSave" /\ NewCalls[i].id = id

\* C21: when the textarea of a widget being edited loses the focus, onSave is
\* called exactly when the trimmed text differs from the content, and never when
\* the text is the content unchanged; Escape puts the content back into the text
\* and calls no onSave; after either the widget is neither editing nor active.
C21_BlurSavesOnlyChanges ==
    [][/\ lastOp' = "mouseDown" =>
            \A id \in WidgetIds :
                (widgets[id].isEditing /\ Blurs(id, mousePending)) =>
                    /\ Saved(id) <=> Trim(widgets[id].text) # props[id].content
                    /\ widgets[id].text = props[id].content => ~Saved(id)
                    /\ ~widgets'[id].isEditing /\ ~widgets'[id].isActive
       /\ lastOp' = "handleKeyDown" =>
            /\ NewCalls = << >>
            /\ \A id \in WidgetIds :
                (widgets[id].isEditing /\ ~widgets'[id].isEditing) =>
                    /\ widgets'[id].text = props[id].content
                    /\ ~widgets'[id].isActive
      ]_vars

\* C22: typing into the Textarea leaves the document as it was (a content changes
\* only when the edit ends by blur), and a key pressed in the Textarea, Escape
\* included, leaves the content alone and ends the edit.
C22_EditCommitsOnBlurOnly ==
    [][/\ lastOp' = "handleTextChange" => boardData' = boardData
       /\ lastOp' = "textareaKeyDown" => (boardData' = boardData /\ editingTextId' = null)
      ]_vars

\* C23: when an image insertion that was started on a loaded document completes,
\* the document still holds every slide and every item it held just before (the
\* edits made while the insertion was outstanding included), and the new image
\* item as well.
C23_InsertionKeepsEdits ==
    [][(/\ lastOp' = "insertFinish"
        /\ boardData # NullBoard /\ insertOp.boardData # NullBoard) =>
          /\ boardData' # NullBoard
          /\ Len(boardData'.slides) = Len(boardData.slides)
          /\ \A s \in DOMAIN boardData.slides :
                \A i \in DOMAIN boardData.slides[s].items :
                    \E j \in DOMAIN boardData'.slides[s].items :
                        boardData'.slides[s].items[j] = boardData.slides[s].items[i]
          /\ \E s \in DOMAIN boardData'.slides :
                \E j \in DOMAIN boardData'.slides[s].items :
                    boardData'.slides[s].items[j].id = "img-" \o ToString(clock)
      ]_vars

\* C24: at most one save write is in flight, and while an image insertion is in
\* flight its Insert button is disabled (isInserting).
C24_NoDuplicateSubmission ==
    /\ Len(saveWrites) <= 1
    /\ insertOp # NoInsert => isInserting

\* C25: once the last listing refresh has completed, with no workspace operation
\* in flight and no error set, the listing holds the filtered, sorted contents of
\* the current directory, which is the last segment of the path.
C25_ListingMatchesStorage ==
    (/\ lastOp = "getDirectoryContentsResolved"
     /\ wsOps = << >> /\ mountPc = "idle" /\ wsError = null) =>
        /\ currentDirectoryHandle = path[Len(path)].handle
        /\ ListsDirectory(directoryContents, Entries(disk, currentDirectoryHandle))

\* C26: in every text saveBoard hands to writeFile, each slide carries an items
\* array and neither a texts nor an images field, also when the document was
\* loaded in the legacy shape.
C26_NeverWrittenInLegacyShape ==
    \A w \in DOMAIN saveWrites :
        LET written == JSONparse(saveWrites[w].content)
        IN  \A s \in DOMAIN written.slides :
                /\ "items" \in DOMAIN written.slides[s]
                /\ "texts" \notin DOMAIN written.slides[s]
                /\ "images" \notin DOMAIN written.slides[s]

\* what the provider shows to its consumers
ProviderView ==
    << wsRootDirectoryHandle, currentDirectoryHandle, directoryContents, path, wsError >>

\* C27: a readFile whose path does not resolve rejects with 'File not found' and
\* never resolves; a deleteItemByPath whose directory does not resolve rejects with
\* 'Could not find directory for path: <dirPath>'; neither rejection changes the
\* error, the listing or the navigation state, and no call by path adds an entry to
\* storage.
C27_PathFailuresPropagate ==
    [][/\ lastOp' = "readFileRejected" =>
            /\ thrown' = "File not found"
            /\ disk' = disk /\ ProviderView' = ProviderView
       /\ lastOp' = "readFileResolved" =>
            \E k \in DOMAIN wsOps :
                /\ wsOps[k].op = "readFile"
                /\ wsOps' = RemoveAt(wsOps, k)
                /\ DirExists(disk, wsOps[k].handle)
                /\ Entry(wsOps[k].handle, wsOps[k].fileName, "file") \in disk
       /\ lastOp' = "getDirectoryHandleResolved" =>
            \E k \in DOMAIN wsOps :
                /\ wsOps[k].op \in { "readFile", "deleteItemByPath" }
                /\ wsOps[k].parts # << >>
                /\ wsOps'[k].handle = Append(wsOps[k].handle, Head(wsOps[k].parts))
                /\ DirExists(disk, wsOps'[k].handle)
       /\ lastOp' = "deleteItemByPathRejected" =>
            /\ \E k \in DOMAIN wsOps :
                /\ wsOps[k].op = "deleteItemByPath"
                /\ wsOps' = RemoveAt(wsOps, k)
                /\ thrown' = "Could not find directory for path: " \o wsOps[k].dirPath
            /\ disk' = disk /\ ProviderView' = ProviderView
       /\ lastOp' \in { "readFile", "deleteItemByPath", "readFileResolved",
                        "getDirectoryHandleResolved" } =>
            (disk' = disk /\ ProviderView' = ProviderView)
       /\ disk' \subseteq disk
      ]_vars

\* with the folder ws mounted and listed, a readFile was rejected
C27_Witness ==
    /\ lastOp = "readFileRejected"
    /\ thrown = "File not found"
    /\ wsRootDirectoryHandle = << "ws" >>
    /\ Names(directoryContents) = << "A", "a.board", "b.board" >>
    /\ wsError = null
    /\ wsOps = << >>
    /\ disk = InitialDisk

C29_ItemsWithinFloors ==
    boardData # NullBoard =>
        \A p \in ItemPlaces(boardData) :
            LET item == boardData.slides[p[1]].items[p[2]]
            IN  IF item.type = "text"
                THEN item.font_size >= MinFontSize /\ item.width >= MinWidth
                ELSE item.scale >= MinScale

\* the path starts at the mounted root, ends at the current directory, and each
\* segment is a child directory of the one before it
PathIsChain ==
    /\ Len(path) >= 1
    /\ path[1].handle = wsRootDirectoryHandle
    /\ currentDirectoryHandle = path[Len(path)].handle
    /\ \A i \in 2..Len(path) :
          /\ path[i].handle = Append(path[i - 1].handle, path[i].name)
          /\ path[i].name = HandleName(path[i].handle)

\* C30: with a root mounted, after every step the navigation path is a chain of
\* directories from the mounted root to the current directory, and a breadcrumb
\* or back click on index k leaves the first k + 1 segments of the path.
C30_PathIsChainFromRoot ==
    [][/\ Browsing' => PathIsChain'
       /\ lastOp' \in { "handleBreadcrumbClick", "handleBackClick" } =>
            \E k \in 0..(Len(path) - 1) :
                /\ path' = SubSeq(path, 1, k + 1)
                /\ lastOp' = "handleBackClick" => k = Len(path) - 2
      ]_vars

InRange(position, fontSize, width) ==
    /\ position[1] \in 0..100 /\ position[2] \in 0..100
    /\ fontSize >= 8
    /\ width >= 50

C33_ActiveInputAfterRemove ==
    [][ lastOp' = "removeFormula" =>
          /\ \E i \in DOMAIN formulas :
                /\ formulas' = FormulasWithout(formulas[i].id)
                /\ activeInputIndex' = Max(0, (i - 1) - 1)
          /\ activeInputIndex' \in 0..(Len(formulas') - 1) ]_vars

\* C34: a capture hides the panel, rasterizes the plot, restores the panel and
\* hands the image over, in this order: the panel is hidden when the plot is
\* rasterized, each capture that completes calls onCapture exactly once, and when
\* the last capture in flight completes the panel is open or closed as it was
\* before the first of them started.
C34_CaptureHidesAndRestoresPanel ==
    [][ /\ lastOp' = "captureTimer" =>
               \A k \in DOMAIN captureOps' :
                   captureOps'[k].stage = "rasterizing" => ~captureOps'[k].panelShown
        /\ lastOp' = "html2canvasResolved" =>
               /\ Len(captureLog') = Len(captureLog) + 1
               /\ \E k \in DOMAIN captureOps :
                      /\ captureOps' = RemoveAt(captureOps, k)
                      /\ captureOps[k].stage = "rasterizing"
                      /\ captureOps' = << >> =>
                             isFormulaSheetOpen' = captureOps[k].panelBefore
        /\ lastOp' # "html2canvasResolved" => captureLog' = captureLog ]_vars

\* C35: Cancel in the crop dialog while an insertion is in flight closes the
\* dialog and clears the source image and changes nothing else: the operation in
\* flight stays as it is, its next step stays possible, and when it finishes on a
\* board it appends the new image to the current slide it was started on, the
\* dialog being open or not.
C35_CancelDoesNotAbortInsertion ==
    [][ /\ (lastOp' = "cropCancel" /\ insertOp # NoInsert) =>
               /\ ~isCropping' /\ sourceImage' = null
               /\ insertOp' = insertOp
               /\ isInserting' = isInserting
               /\ boardData' = boardData /\ currentSlideIndex' = currentSlideIndex
               /\ siblings' = siblings /\ toasts' = toasts
        /\ (insertOp.stage = "processing" /\ ~isCropping) => ENABLED insertProcessedOk
        /\ (insertOp.stage = "writing" /\ ~isCropping) => ENABLED insertWriteOk
        /\ (insertOp.stage = "decoding" /\ ~isCropping) => ENABLED insertFinish
        /\ (lastOp' = "insertFinish" /\ insertOp.boardData # NullBoard
              /\ insertOp.currentSlideIndex < Len(insertOp.boardData.slides)) =>
               LET items == boardData'.slides[insertOp.currentSlideIndex + 1].items
                   before == insertOp.boardData.slides[insertOp.currentSlideIndex + 1].items
               IN  /\ Len(items) = Len(before) + 1
                   /\ items[Len(items)].type = "image"
                   /\ items[Len(items)].filename = insertOp.filename
                   /\ insertOp.filename \in siblings
                   /\ insertOp' = NoInsert /\ ~isInserting' ]_vars

\* the dialog was cancelled while the insertion was being processed, and the
\* insertion has written its file since and is about to append its image
C35_Witness ==
    /\ lastOp = "insertWriteOk"
    /\ insertOp.stage = "decoding"
    /\ insertOp.boardData # NullBoard
    /\ insertOp.filename \in siblings
    /\ ~isCropping /\ sourceImage = null
    /\ isInserting

\* C36: in every state editingTextId is null or equal to selectedItemId, and the
\* edit is over after a click that selects another item, after a thumbnail click
\* and after the deletion of an item.
C36_EditedItemIsSelected ==
    [][ /\ editingTextId' = null \/ editingTextId' = selectedItemId'
        /\ (lastOp' = "itemClick" /\ selectedItemId' # selectedItemId) =>
               editingTextId' = null
        /\ lastOp' \in { "handleThumbnailClick", "handleDeleteItem" } =>
               editingTextId' = null ]_vars

\* a text was being edited, the focus left it, and another item was selected
C36_Witness ==
    /\ lastOp = "itemClick"
    /\ selectedItemId = "i1"
    /\ editingTextId = null
    /\ nOps = 4
    /\ \E i \in DOMAIN CurrentItems :
           CurrentItems[i].id = "t1" /\ CurrentItems[i].content = "Edited"

\* C37: in every state selectedItemId is null or the id of an item of the current
\* slide, and it is null after a thumbnail click and after the deletion of the
\* selected item.
C37_SelectionIsOnCurrentSlide ==
    [][ /\ \/ selectedItemId' = null
           \/ \E i \in DOMAIN CurrentItems' : CurrentItems'[i].id = selectedItemId'
        /\ lastOp' \in { "handleThumbnailClick", "handleDeleteItem" } =>
               selectedItemId' = null ]_vars

UniqueIds(bd) ==
    \A s, t \in DOMAIN bd.slides :
        \A i \in DOMAIN bd.slides[s].items, j \in DOMAIN bd.slides[t].items :
            bd.slides[s].items[i].id = bd.slides[t].items[j].id => (s = t /\ i = j)

\* the handlers that change one item, and the item each one is aimed at
ItemOps ==
    { "handleMoveItem", "handleRotateItem", "handleScaleItem-up", "handleScaleItem-down",
      "handleWidthChange-increase", "handleWidthChange-decrease",
      "handleTextChange", "handleDeleteItem" }
TargetId(op) == IF op = "handleTextChange" THEN editingTextId ELSE selectedItemId

\* the field of `item` the handler changes
TargetField(op, item) ==
    CASE op = "handleMoveItem" -> "position"
      [] op = "handleRotateItem" -> "rotation"
      [] op \in { "handleScaleItem-up", "handleScaleItem-down" } ->
             IF item.type = "text" THEN "font_size" ELSE "scale"
      [] op \in { "handleWidthChange-increase", "handleWidthChange-decrease" } -> "width"
      [] OTHER -> "content"

Loading == boardData = NullBoard /\ error = null

\* C40: every load attempt leaves the loading state: from the opening of the
\* page on, the editor eventually has a loaded document or the load error.
C40_LoadEventuallySettles == (loadPc = "pending") ~> ~Loading

\* C40 for the pages opened with a mounted root folder
C40_LoadSettlesWithRoot == (loadPc = "pending" /\ rootDirectoryHandle) ~> ~Loading

====
